---------------------------- MODULE Spec2Model ----------------------------
(***************************************************************************)
(* ModelGenerator.generate_stl (backend/app/services/model_generator.py)   *)
(* as a state machine: one call of generate_stl runs from "validate" to    *)
(* "done" (bytes returned) or "failed" (ValueError raised), one action per *)
(* stage of the function and one per row of the chunked terrain loop       *)
(* (Spec).  ServiceSpec is one ElevationService taking calls one after     *)
(* another, RouteSpec one convert_gpx_to_stl request.                      *)
(*                                                                         *)
(* Numbers are extended rationals <<n, d>> with d >= 0 in lowest terms:    *)
(* d > 0 is the finite value n/d, <<1,0>> is +inf, <<-1,0>> is -inf and    *)
(* <<0,0>> is NaN, with the IEEE-754 results numpy gives for them (numpy   *)
(* warns on x/0 and 0*inf, it does not raise).  Rounding of finite values  *)
(* is not modelled.  Python's None is the empty tuple.                     *)
(***************************************************************************)
EXTENDS Integers, Sequences, FiniteSets, TLC

(***************************************************************************)
(* Bounds of the model.                                                    *)
(***************************************************************************)
MaxSmall == 2        \* small grids: width, height in 1..MaxSmall, all patterns
MaxTallWidth == 2    \* tall grids: width in 1..MaxTallWidth
MaxHeight == 41      \* tall grids: height in 1..MaxHeight
PatLen == 2          \* period of the elevation pattern of a grid
MaxTrack == 2        \* track lengths 0..MaxTrack
MaxStride == 2       \* long tracks: lengths around m * 200 for m in 1..MaxStride
MaxShortTrack == 3   \* tracks of 2..MaxShortTrack points with fewer elevations
MaxCount == 1000     \* track lengths 0..MaxCount given to the downsampling alone
NumThreads == 2      \* requests inside the shared service at the same time
MaxCalls == 3        \* calls made on one ElevationService
MaxResolution == 3   \* resolutions 1..MaxResolution of a direct grid query

(***************************************************************************)
(* Program constants.                                                      *)
(***************************************************************************)
ChunkRows == 20          \* chunk_size = min(20, height)
max_track_points == 200  \* max_track_points = 200
NodataFill == -9999      \* point[2] if point[2] is not None else -9999
NodataCut == -9000       \* the cut of the nodata filter

(***************************************************************************)
(* Extended rational arithmetic (numpy float64 semantics without rounding).*)
(***************************************************************************)
Abs(n) == IF n < 0 THEN -n ELSE n

Sgn(n) == IF n > 0 THEN 1 ELSE IF n < 0 THEN -1 ELSE 0

RECURSIVE GCD(_, _)
GCD(a, b) == IF b = 0 THEN a ELSE GCD(b, a % b)

Norm(n, d) ==
    IF d = 0 THEN <<Sgn(n), 0>>
    ELSE LET s == IF d < 0 THEN -1 ELSE 1
             g == GCD(Abs(n), Abs(d))
         IN  <<(s * n) \div g, (s * d) \div g>>

Q(n) == <<n, 1>>

None == <<>>

NaN == <<0, 0>>

IsFinite(a) == a[2] > 0

\* np.isnan
IsNaN(a) == a = NaN

\* a * b : 0 * inf = NaN, NaN * x = NaN
RMul(a, b) == Norm(a[1] * b[1], a[2] * b[2])

\* a + b : inf + (-inf) = NaN
RAdd(a, b) ==
    IF IsFinite(a) /\ IsFinite(b) THEN Norm(a[1] * b[2] + b[1] * a[2], a[2] * b[2])
    ELSE IF IsNaN(a) \/ IsNaN(b) THEN NaN
    ELSE IF IsFinite(a) THEN b
    ELSE IF IsFinite(b) THEN a
    ELSE IF a = b THEN a ELSE NaN

RNeg(a) == <<-a[1], a[2]>>

\* a - b
RSub(a, b) == RAdd(a, RNeg(b))

\* a / b as numpy divides: x/0 = +-inf, 0/0 = NaN, x/inf = 0
RDiv(a, b) ==
    LET recip == IF b[1] > 0 THEN <<b[2], b[1]>>
                 ELSE IF b[1] < 0 THEN <<-b[2], -b[1]>>
                 ELSE IF b[2] = 0 THEN NaN ELSE <<1, 0>>
    IN  RMul(a, recip)

\* a < b ; every comparison with NaN is False
RLt(a, b) ==
    IF IsNaN(a) \/ IsNaN(b) THEN FALSE
    ELSE IF a[2] = 0 /\ b[2] = 0 THEN a[1] < b[1]
    ELSE a[1] * b[2] < b[1] * a[2]

RGt(a, b) == RLt(b, a)

RLe(a, b) == RLt(a, b) \/ (~IsNaN(a) /\ a = b)

RAbs(a) == <<Abs(a[1]), a[2]>>

\* np.min / np.max of a non-empty set of non-NaN values
RMin(S) == CHOOSE a \in S : \A b \in S : RLe(a, b)

RMax(S) == CHOOSE a \in S : \A b \in S : RLe(b, a)

Min2(a, b) == IF a < b THEN a ELSE b

Max2(a, b) == IF a > b THEN a ELSE b

\* math.cos(math.radians(deg)) on the latitudes of the model (multiples of
\* 60 degrees); the float results 0.5000000000000001 and -0.4999999999999998
\* are taken as 1/2 and -1/2.
CosDeg(deg) ==
    CASE deg = Q(0)   -> Q(1)
      [] deg = Q(60)  -> <<1, 2>>
      [] deg = Q(120) -> <<-1, 2>>
      [] deg = Q(180) -> Q(-1)

\* range(start, stop, step) as a sequence
Range(start, stop, step) ==
    IF stop <= start THEN <<>>
    ELSE [k \in 1..((stop - start + step - 1) \div step) |-> start + (k - 1) * step]

(***************************************************************************)
(* State of one generate_stl call.                                         *)
(***************************************************************************)
VARIABLES
    elevation_grid,       \* argument: sequence of <<lat, lon, elev>>
    track_points,         \* argument: sequence of [latitude, longitude]
    track_elevations,     \* argument: sequence of elevation or None
    width, height,        \* arguments
    model_width_mm,       \* argument
    altitude_multiplier,  \* argument
    pc,                   \* stage the call is about to run
    err,                  \* message of the ValueError raised, "" if none
    ctx,                  \* locals of the data-extraction block
    vertices, faces,      \* the mesh lists
    vertex_index,         \* running counter of the terrain loop
    chunk_index, chunk_start, chunk_end,  \* chunk loop: -1 before the first chunk
    i,                    \* row loop: the next row it takes
    visited,              \* the values the row loop variable i has taken
    base_vertex_start,    \* index of the first base vertex
    stl_data              \* returned bytes: the facets, None before return

\* State of the ElevationService the application shares, and of one
\* convert_gpx_to_stl request.  The request keeps its locals track_points,
\* results (elevation_grid here), width, height, track_elevations,
\* model_width_mm and altitude_multiplier in the variables above: they are
\* the arguments it hands to generate_stl.
VARIABLES
    dsm,                  \* the raster file at dsm_path
    dataset,              \* self._dataset: None or the open dataset
    opened,               \* how many datasets rasterio.open has returned
    closed,               \* the datasets whose close() has been called
    svc,                  \* the last call on the service and its outcome
    calls,                \* how many calls the service has taken
    request,              \* the upload and the form fields
    response,             \* what the route returns
    grid_resolution,      \* route local
    padding_factor,       \* route local
    bounds,               \* route local
    sample_kind           \* the type of the samples in results

\* State of calls that run at the same time: the requests that are inside
\* the shared service, and the frame of a second generate_stl call.
VARIABLES
    threads,              \* per request thread: its place in the service
    other,                \* the locals of the generate_stl call not running
    running               \* which of two generate_stl calls is running

\* State of the downsampling of the track stage taken alone (lines 379-389).
VARIABLES
    track_length,         \* len(track_points)
    sampled               \* the original indices of sampled_track

generator == <<elevation_grid, track_points, track_elevations, width, height,
               model_width_mm, altitude_multiplier, pc, err, ctx, vertices, faces,
               vertex_index, chunk_index, chunk_start, chunk_end, i, visited,
               base_vertex_start, stl_data>>

service == <<dsm, dataset, opened, closed, svc, calls>>

concurrent == <<threads, other, running>>

sampling == <<track_length, sampled>>

\* what the calls of one request at a time leave alone
beyond == <<concurrent, sampling>>

route == <<request, response, grid_resolution, padding_factor, bounds, sample_kind>>

\* what a generate_stl call leaves alone
outside == <<service, route, beyond>>

vars == <<generator, service, route, beyond>>

inputs == <<elevation_grid, track_points, track_elevations, width, height,
            model_width_mm, altitude_multiplier>>

\* defaults of the keyword arguments the route leaves out
base_thickness_mm == Q(2)

path_elevation_mm == <<1, 2>>

\* messages of the ValueErrors generate_stl raises
ErrInvalidGrid == "Invalid elevation grid"

ErrTrackRequired == "Track points are required"

ErrElevationData == "Error processing elevation data: zero-size array to reduction operation minimum which has no identity"

ErrWalls == "Error generating walls: list index out of range"

ErrStlFile == "Error generating STL file: list index out of range"

\* locals not assigned yet
Unset == [min_lon |-> None, min_lat |-> None, max_lon |-> None, max_lat |-> None,
          min_elev |-> None, max_elev |-> None, x_scale |-> None, y_scale |-> None,
          model_height_mm |-> None, z_scale |-> None]


(***************************************************************************)
(* ElevationService (backend/app/services/elevation.py): one service with  *)
(* its cached dataset, called one call after another.                      *)
(***************************************************************************)
\* a raster cell as the dataset holds it (an integer), before float()
Cell(n) == <<n>>

\* float(value) of a raster cell
Float(value) == Q(value[1])

\* dataset.bounds of the rasters of the model
RasterBounds == [left |-> Q(0), right |-> Q(2), bottom |-> Q(0), top |-> Q(90)]

\* the files dsm_path can name: opens says whether rasterio.open succeeds,
\* reads whether reading from the open dataset succeeds, hole whether the
\* cell of row 0, column 0 holds the value -9999
DsmFiles == [opens : BOOLEAN, reads : BOOLEAN, nodata : {None, Cell(NodataFill)},
             hole : BOOLEAN]

\* elev_array[row][col] of the window read
CellValue(file, row, col) ==
    IF file.hole /\ row = 0 /\ col = 0 THEN Cell(NodataFill)
    ELSE Cell(100 * (row + 1) + col)

\* what next(dataset.sample([(lon, lat)])) does: StopIteration, another
\* exception, or an array whose first entry is the value
Samples == { [kind |-> "stop", value |-> None], [kind |-> "raise", value |-> None],
             [kind |-> "value", value |-> None],
             [kind |-> "value", value |-> Cell(NodataFill)],
             [kind |-> "value", value |-> Cell(150)] }

PointLats == { Q(60), Q(91) }

PointLons == { Q(1), Q(3) }

GridBounds == { [min_latitude |-> Q(0), max_latitude |-> Q(60),
                 min_longitude |-> Q(0), max_longitude |-> Q(1)],
                [min_latitude |-> Q(60), max_latitude |-> Q(60),
                 min_longitude |-> Q(1), max_longitude |-> Q(2)] }

\* a _get_dataset that opens the file on every call
get_dataset_uncached(ds, file, n) ==
    IF file.opens THEN [raised |-> FALSE, dataset |-> <<n + 1>>, opened |-> n + 1]
    ELSE [raised |-> TRUE, dataset |-> ds, opened |-> n]

\* _get_dataset: the cached dataset, or a newly opened one, or the exception
\* of rasterio.open; n datasets have been opened before
get_dataset(ds, file, n) ==
    IF ds # None THEN [raised |-> FALSE, dataset |-> ds, opened |-> n]
    ELSE IF file.opens THEN [raised |-> FALSE, dataset |-> <<n + 1>>, opened |-> n + 1]
    ELSE [raised |-> TRUE, dataset |-> ds, opened |-> n]

\* a bounds check that leaves the latitude out
is_point_in_lon_bounds(b, lat, lon) == RLe(b.left, lon) /\ RLe(lon, b.right)

\* _is_point_in_bounds
is_point_in_bounds(b, lat, lon) ==
    /\ RLe(b.left, lon) /\ RLe(lon, b.right)
    /\ RLe(b.bottom, lat) /\ RLe(lat, b.top)

\* _is_nodata
is_nodata(file, value) == file.nodata # None /\ value = file.nodata

\* get_point_elevation: the value returned and the number of
\* logger.exception calls; the method has no raise that leaves it
PointElevation(ds, file, n, lat, lon, smp) ==
    LET d == get_dataset(ds, file, n)
        ret(v, l) == [raised |-> FALSE, value |-> v, logged |-> l,
                      dataset |-> d.dataset, opened |-> d.opened]
    IN  IF d.raised THEN ret(None, 1)
        ELSE IF ~is_point_in_bounds(RasterBounds, lat, lon) THEN ret(None, 0)
        ELSE IF smp.kind = "stop" THEN ret(None, 0)
        ELSE IF smp.kind = "raise" THEN ret(None, 1)
        ELSE IF is_nodata(file, smp.value) THEN ret(None, 0)
        ELSE IF smp.value = None THEN ret(None, 0)
        ELSE ret(Float(smp.value), 0)

\* np.linspace(start, stop, num).tolist()
LinSpace(start, stop, num) ==
    [k \in 1..num |->
        IF k = 1 THEN start
        ELSE IF k = num THEN stop
        ELSE RAdd(start, RMul(Q(k - 1), RDiv(RSub(stop, start), Q(num - 1))))]

\* the raster row left as it is
RasterRowSame(resolution, r) == r

\* row = resolution - i - 1
RasterRow(resolution, r) == resolution - r - 1

\* the results list of get_elevation_grid: one dict per sample
GridResults(file, b, resolution) ==
    LET lat_vals == LinSpace(b.min_latitude, b.max_latitude, resolution)
        lon_vals == LinSpace(b.min_longitude, b.max_longitude, resolution)
    IN  [k \in 1..(resolution * resolution) |->
            LET r == (k - 1) \div resolution
                c == (k - 1) % resolution
                val == CellValue(file, RasterRow(resolution, r), c)
            IN  [latitude |-> lat_vals[r + 1],
                 longitude |-> lon_vals[c + 1],
                 elevation |-> IF file.nodata # None /\ val = file.nodata
                               THEN None ELSE Float(val)]]

\* get_elevation_grid: (results, resolution, resolution), or the exception
\* logged once and raised again
ElevationGrid(ds, file, n, b, resolution) ==
    LET d == get_dataset(ds, file, n)
    IN  IF d.raised \/ ~file.reads
        THEN [raised |-> TRUE, value |-> None, logged |-> 1,
              dataset |-> d.dataset, opened |-> d.opened]
        ELSE [raised |-> FALSE,
              value |-> <<GridResults(file, b, resolution), resolution, resolution>>,
              logged |-> 0, dataset |-> d.dataset, opened |-> d.opened]

NoCall == [op |-> "none"]

get_point_elevation ==
    /\ calls < MaxCalls
    /\ \E lat \in PointLats, lon \in PointLons, smp \in Samples :
          LET r == PointElevation(dataset, dsm, opened, lat, lon, smp)
          IN  /\ svc' = [op |-> "get_point_elevation", lat |-> lat, lon |-> lon,
                         cached |-> dataset # None, sample |-> smp,
                         raised |-> r.raised, value |-> r.value, logged |-> r.logged]
              /\ dataset' = r.dataset
              /\ opened' = r.opened
    /\ calls' = calls + 1
    /\ UNCHANGED <<dsm, closed, generator, route, beyond>>

get_elevation_grid ==
    /\ calls < MaxCalls
    /\ \E b \in GridBounds, resolution \in 1..MaxResolution :
          LET r == ElevationGrid(dataset, dsm, opened, b, resolution)
          IN  /\ svc' = [op |-> "get_elevation_grid", bounds |-> b,
                         resolution |-> resolution, cached |-> dataset # None,
                         raised |-> r.raised, value |-> r.value, logged |-> r.logged]
              /\ dataset' = r.dataset
              /\ opened' = r.opened
    /\ calls' = calls + 1
    /\ UNCHANGED <<dsm, closed, generator, route, beyond>>

close ==
    /\ calls < MaxCalls
    /\ svc' = [op |-> "close", cached |-> dataset # None]
    /\ closed' = IF dataset # None THEN closed \cup {dataset} ELSE closed
    /\ dataset' = None
    /\ calls' = calls + 1
    /\ UNCHANGED <<dsm, opened, generator, route, beyond>>

\* no request and no generate_stl call
Idle ==
    /\ elevation_grid = <<>>
    /\ track_points = <<>>
    /\ track_elevations = <<>>
    /\ width = 0
    /\ height = 0
    /\ model_width_mm = None
    /\ altitude_multiplier = None
    /\ err = ""
    /\ ctx = Unset
    /\ vertices = <<>>
    /\ faces = <<>>
    /\ vertex_index = 0
    /\ chunk_index = -1
    /\ chunk_start = 0
    /\ chunk_end = 0
    /\ i = 0
    /\ visited = <<>>
    /\ base_vertex_start = 0
    /\ stl_data = None

NoRequest == [has_file |-> FALSE]

NoResponse == [status |-> 0, error |-> "", body |-> None]

\* no request: the route's own variables at rest
RouteIdle ==
    /\ request = NoRequest
    /\ response = NoResponse
    /\ grid_resolution = 0
    /\ padding_factor = None
    /\ bounds = None
    /\ sample_kind = ""

\* one call at a time: no second thread and no second generate_stl call
Sequential ==
    /\ threads = <<>>
    /\ other = <<>>
    /\ running = 0
    /\ track_length = 0
    /\ sampled = <<>>

\* a service just constructed: self._dataset = None
ServiceNew ==
    /\ dataset = None
    /\ opened = 0
    /\ closed = {}
    /\ svc = NoCall
    /\ calls = 0

ServiceInit ==
    /\ Idle
    /\ pc = "service"
    /\ RouteIdle
    /\ ServiceNew
    /\ Sequential
    /\ dsm \in DsmFiles

ServiceNext ==
    \/ get_point_elevation
    \/ get_elevation_grid
    \/ close

ServiceSpec == ServiceInit /\ [][ServiceNext]_vars

(***************************************************************************)
(* Requests inside the shared service at the same time.  Flask serves each *)
(* request on a thread of its own and _get_dataset takes no lock, so the   *)
(* test of line 54, rasterio.open and the assignment of line 57, and the   *)
(* read of line 59 of one request interleave with those of another.        *)
(***************************************************************************)
Threads == 1..NumThreads

QueryOps == {"get_point_elevation", "get_elevation_grid"}

\* a request that has not called into the service yet
Waiting == [pc |-> "waiting", op |-> "none", handle |-> None]

\* what the steps of thread t leave alone
ThreadFrame == <<generator, route, sampling, other, running, dsm, closed, svc, calls>>

\* current_app.elevation_service.get_elevation_grid(...) or
\* get_point_elevation(...): the query calls self._get_dataset()
EnterQuery(t) ==
    /\ threads[t].pc = "waiting"
    /\ \E op \in QueryOps :
          threads' = [threads EXCEPT ![t] = [pc |-> "test", op |-> op, handle |-> None]]
    /\ UNCHANGED <<ThreadFrame, dataset, opened>>

\* line 54: if self._dataset is None
TestCache(t) ==
    /\ threads[t].pc = "test"
    /\ threads' = [threads EXCEPT ![t].pc =
                      IF dataset = None THEN "open" ELSE "return"]
    /\ UNCHANGED <<ThreadFrame, dataset, opened>>

\* line 57, right-hand side: rasterio.open(self.dsm_path) returns a new
\* dataset or raises
OpenDataset(t) ==
    /\ threads[t].pc = "open"
    /\ IF dsm.opens
       THEN /\ opened' = opened + 1
            /\ threads' = [threads EXCEPT ![t].pc = "assign",
                                          ![t].handle = <<opened + 1>>]
       ELSE /\ opened' = opened
            /\ threads' = [threads EXCEPT ![t].pc = "raised"]
    /\ UNCHANGED <<ThreadFrame, dataset>>

\* line 57, assignment: self._dataset = <the dataset just opened>
AssignDataset(t) ==
    /\ threads[t].pc = "assign"
    /\ dataset' = threads[t].handle
    /\ threads' = [threads EXCEPT ![t].pc = "return", ![t].handle = None]
    /\ UNCHANGED <<ThreadFrame, opened>>

\* line 59: return self._dataset, which the query then reads from
ReturnDataset(t) ==
    /\ threads[t].pc = "return"
    /\ threads' = [threads EXCEPT ![t].pc = "reading", ![t].handle = dataset]
    /\ UNCHANGED <<ThreadFrame, dataset, opened>>

\* the query is over: its reference to the dataset goes with its frame
LeaveQuery(t) ==
    /\ threads[t].pc = "reading"
    /\ threads' = [threads EXCEPT ![t].pc = "left"]
    /\ UNCHANGED <<ThreadFrame, dataset, opened>>

ConcurrentInit ==
    /\ Idle
    /\ pc = "service"
    /\ request = NoRequest
    /\ response = NoResponse
    /\ grid_resolution = 0
    /\ padding_factor = None
    /\ bounds = None
    /\ sample_kind = ""
    /\ dataset = None
    /\ opened = 0
    /\ closed = {}
    /\ svc = [op |-> "none"]
    /\ calls = 0
    /\ other = <<>>
    /\ running = 0
    /\ track_length = 0
    /\ sampled = <<>>
    /\ \E opens \in BOOLEAN :
          dsm = [opens |-> opens, reads |-> TRUE, nodata |-> None, hole |-> FALSE]
    /\ threads = [t \in Threads |-> Waiting]

ConcurrentNext ==
    \E t \in Threads :
        \/ EnterQuery(t)
        \/ TestCache(t)
        \/ OpenDataset(t)
        \/ AssignDataset(t)
        \/ ReturnDataset(t)
        \/ LeaveQuery(t)

ConcurrentSpec == ConcurrentInit /\ [][ConcurrentNext]_vars

(***************************************************************************)
(* Arguments the model calls generate_stl with.                            *)
(***************************************************************************)
LatPatterns == { <<Q(-60), Q(-60)>>, <<Q(-60), Q(60)>>, <<Q(60), Q(180)>>,
                 <<Q(180), Q(180)>> }

LonPatterns == { <<Q(0), Q(1)>>, <<Q(1), Q(1)>> }

ElevVals == { None, NaN, Q(NodataFill), Q(100), Q(200) }

ElevPatterns == [1..PatLen -> ElevVals]

TallElevPatterns == { [k \in 1..PatLen |-> Q(100 * k)],
                      [k \in 1..PatLen |-> IF k = 1 THEN None ELSE Q(100)] }

\* a grid of n samples: latitude by row, longitude by column, elevation by
\* position in the flattened list
MakeGrid(n, w, latp, lonp, elevp) ==
    [k \in 1..n |-> << latp[(((k - 1) \div w) % 2) + 1],
                       lonp[(((k - 1) % w) % 2) + 1],
                       elevp[((k - 1) % PatLen) + 1] >>]

MakeTrack(t) == [k \in 1..t |-> [latitude |-> Q(60), longitude |-> Q(k - 1)]]

MakeTrackElevations(t) == [k \in 1..t |-> IF k % 2 = 1 THEN Q(150) ELSE None]

ModelWidths == { Q(100) }

AltitudeMultipliers == { Q(1), Q(2) }

InitLocals ==
    /\ pc = "validate"
    /\ err = ""
    /\ ctx = Unset
    /\ vertices = <<>>
    /\ faces = <<>>
    /\ vertex_index = 0
    /\ chunk_index = -1
    /\ chunk_start = 0
    /\ chunk_end = 0
    /\ i = 0
    /\ visited = <<>>
    /\ base_vertex_start = 0
    /\ stl_data = None

\* small grids with every pattern, sized right or off by one; the altitude
\* multiplier varies under the track of one point
InitSmall ==
    /\ width \in 1..MaxSmall
    /\ height \in 1..MaxSmall
    /\ \E n \in {width * height - 1, width * height, width * height + 1},
          latp \in LatPatterns, lonp \in LonPatterns, elevp \in ElevPatterns :
            elevation_grid = MakeGrid(n, width, latp, lonp, elevp)
    /\ \E t \in {0, 1, MaxTrack} :
          /\ track_points = MakeTrack(t)
          /\ track_elevations = MakeTrackElevations(t)
    /\ model_width_mm \in ModelWidths
    /\ altitude_multiplier \in
          IF Len(track_points) = 1 THEN AltitudeMultipliers ELSE {Q(1)}

\* tall grids, which the terrain loop cuts into several chunks
InitTall ==
    /\ width \in 1..MaxTallWidth
    /\ height \in 1..MaxHeight
    /\ \E elevp \in TallElevPatterns :
          elevation_grid = MakeGrid(width * height, width, <<Q(-60), Q(60)>>,
                                    <<Q(0), Q(1)>>, elevp)
    /\ track_points = MakeTrack(1)
    /\ track_elevations = MakeTrackElevations(1)
    /\ model_width_mm = Q(100)
    /\ altitude_multiplier = Q(1)

\* lengths just below, at and above the multiples of max_track_points
LongTracks == { max_track_points * m + d : m \in 1..MaxStride, d \in {-1, 0, 1} }

\* long tracks, which the track stage downsamples
InitLong ==
    /\ width = 2
    /\ height = 2
    /\ elevation_grid = MakeGrid(4, 2, <<Q(-60), Q(60)>>, <<Q(0), Q(1)>>,
                                 [k \in 1..PatLen |-> Q(100 * k)])
    /\ \E t \in LongTracks :
          /\ track_points = MakeTrack(t)
          /\ track_elevations = MakeTrackElevations(t)
    /\ model_width_mm = Q(100)
    /\ altitude_multiplier = Q(1)

\* what get_point_elevation gave for the points of a track, by turns
TrackElevationPatterns == { <<Q(150), None>>, <<NaN, Q(150)>>,
                            <<Q(NodataFill), Q(150)>> }

\* track_elevations of every length up to the track's
InitElevations ==
    /\ width = 2
    /\ height = 2
    /\ elevation_grid = MakeGrid(4, 2, <<Q(-60), Q(60)>>, <<Q(0), Q(1)>>,
                                 [k \in 1..PatLen |-> Q(100 * k)])
    /\ \E t \in 2..MaxShortTrack, e \in 0..MaxShortTrack :
          /\ e <= t
          /\ track_points = MakeTrack(t)
          /\ \E vals \in TrackElevationPatterns :
                track_elevations = [k \in 1..e |-> vals[((k - 1) % 2) + 1]]
    /\ model_width_mm = Q(100)
    /\ altitude_multiplier = Q(1)

\* a direct call: no request, and a service nobody calls
InitOutside ==
    /\ RouteIdle
    /\ ServiceNew
    /\ Sequential
    /\ dsm = [opens |-> TRUE, reads |-> TRUE, nodata |-> None, hole |-> FALSE]

Init ==
    /\ InitLocals
    /\ InitOutside
    /\ (InitSmall \/ InitTall \/ InitLong \/ InitElevations)

(***************************************************************************)
(* Input validation (lines 83-87).                                         *)
(***************************************************************************)
Raise(msg) ==
    /\ pc' = "failed"
    /\ err' = msg

\* a grid of a wrong size that the size check lets through
GridSizeOkAtLeast(grid, w, h) == grid # <<>> /\ Len(grid) >= w * h

\* not (not elevation_grid or len(elevation_grid) != width * height)
GridSizeOk(grid, w, h) == grid # <<>> /\ Len(grid) = w * h

\* the track check left out
TrackMissingNever(track) == FALSE

\* not track_points
TrackMissing(track) == track = <<>>

Validate ==
    /\ pc = "validate"
    /\ IF ~GridSizeOk(elevation_grid, width, height) THEN Raise(ErrInvalidGrid)
       ELSE IF TrackMissing(track_points) THEN Raise(ErrTrackRequired)
       ELSE pc' = "extract" /\ err' = err
    /\ UNCHANGED <<outside, inputs, ctx, vertices, faces, vertex_index, chunk_index,
                   chunk_start, chunk_end, i, visited, base_vertex_start, stl_data>>

(***************************************************************************)
(* Data extraction: bounds, elevation range and scales (lines 90-174).     *)
(***************************************************************************)
\* point[2] if point[2] is not None else -9999
ElevOf(point) == IF point[3] = None THEN Q(NodataFill) ELSE point[3]

\* the nodata filter left out: every elevation that is not NaN counts
ValidElevsUnfiltered(grid) ==
    { ElevOf(grid[k]) : k \in { m \in 1..Len(grid) : ~IsNaN(ElevOf(grid[m])) } }

\* elevs[elevs > -9000]
ValidElevs(grid) ==
    { ElevOf(grid[k]) : k \in { m \in 1..Len(grid) : RGt(ElevOf(grid[m]), Q(NodataCut)) } }

Lats(grid) == { grid[k][1] : k \in 1..Len(grid) }

Lons(grid) == { grid[k][2] : k \in 1..Len(grid) }

XScale(mw, geo_width) == RDiv(mw, geo_width)

\* the correction applied the wrong way round
YScaleTimesCos(x_scale, center_lat) == RMul(x_scale, CosDeg(RAbs(center_lat)))

YScale(x_scale, center_lat) == RDiv(x_scale, CosDeg(RAbs(center_lat)))

ZScale(elev_range, mw, am) ==
    IF RGt(elev_range, Q(0))
    THEN RMul(RDiv(RMul(<<1, 10>>, mw), elev_range), am)
    ELSE RMul(Q(1), am)

ExtractData ==
    /\ pc = "extract"
    /\ LET min_lon == RMin(Lons(elevation_grid))
           min_lat == RMin(Lats(elevation_grid))
           max_lon == RMax(Lons(elevation_grid))
           max_lat == RMax(Lats(elevation_grid))
           valid == ValidElevs(elevation_grid)
       IN  IF valid = {}
           THEN /\ Raise(ErrElevationData)
                /\ ctx' = [Unset EXCEPT !.min_lon = min_lon, !.min_lat = min_lat,
                                        !.max_lon = max_lon, !.max_lat = max_lat]
           ELSE LET min_elev == RMin(valid)
                    max_elev == RMax(valid)
                    geo_width == RSub(max_lon, min_lon)
                    geo_height == RSub(max_lat, min_lat)
                    center_lat == RDiv(RAdd(min_lat, max_lat), Q(2))
                    x_scale == XScale(model_width_mm, geo_width)
                    y_scale == YScale(x_scale, center_lat)
                    elev_range == RSub(max_elev, min_elev)
                IN  /\ pc' = "reshape"
                    /\ err' = err
                    /\ ctx' = [min_lon |-> min_lon, min_lat |-> min_lat,
                               max_lon |-> max_lon, max_lat |-> max_lat,
                               min_elev |-> min_elev, max_elev |-> max_elev,
                               x_scale |-> x_scale, y_scale |-> y_scale,
                               model_height_mm |-> RMul(geo_height, y_scale),
                               z_scale |-> ZScale(elev_range, model_width_mm,
                                                  altitude_multiplier)]
    /\ UNCHANGED <<outside, inputs, vertices, faces, vertex_index, chunk_index,
                   chunk_start, chunk_end, i, visited, base_vertex_start, stl_data>>

\* center_lat of the grid, as line 121 computes it
CenterLat == RDiv(RAdd(RMin(Lats(elevation_grid)), RMax(Lats(elevation_grid))), Q(2))

(***************************************************************************)
(* Reshape into height x width arrays (lines 177-200).                     *)
(***************************************************************************)
\* grid_lats[r, c], grid_lons[r, c], grid_elevs[r, c]
GridAt(r, c) == elevation_grid[r * width + c + 1]

Reshape ==
    /\ pc = "reshape"
    /\ pc' = "terrain"
    /\ UNCHANGED <<outside, inputs, err, ctx, vertices, faces, vertex_index, chunk_index,
                   chunk_start, chunk_end, i, visited, base_vertex_start, stl_data>>

(***************************************************************************)
(* Terrain mesh, built in chunks of rows (lines 203-288).                  *)
(***************************************************************************)
\* chunk_size = min(20, height)
ChunkSize(h) == Min2(ChunkRows, h)

\* range(0, height, chunk_size)
ChunkStarts(h) == Range(0, h, ChunkSize(h))

\* a chunk that stops one row early
ChunkEndShort(start, h) == Min2(start + ChunkSize(h) - 1, h)

\* chunk_end = min(chunk_start + chunk_size, height)
ChunkEnd(start, h) == Min2(start + ChunkSize(h), h)

\* elev is None or np.isnan(elev)
IsMissing(elev) == elev = None \/ IsNaN(elev)

\* the scaled coordinates of a sample with elevation elev
Scaled(lat, lon, elev) ==
    << RMul(RSub(lon, ctx.min_lon), ctx.x_scale),
       RMul(RSub(lat, ctx.min_lat), ctx.y_scale),
       RMul(RSub(elev, ctx.min_elev), ctx.z_scale) >>

\* the vertex appended for grid position (r, c)
TerrainVertex(r, c) ==
    LET p == GridAt(r, c)
    IN  Scaled(p[1], p[2], IF IsMissing(p[3]) THEN ctx.min_elev ELSE p[3])

\* the column test off by one
HasCellWide(r, c, w, h) == r < h - 1 /\ c < w

\* if i < height - 1 and j < width - 1
HasCell(r, c, w, h) == r < h - 1 /\ c < w - 1

\* the second triangle of a cell wound the other way
CellFacesSwapped(v, w) == << <<v, v + 1, v + w>>, <<v + 1, v + w, v + w + 1>> >>

\* the two triangles of the cell whose first corner has index v
CellFaces(v, w) == << <<v, v + 1, v + w>>, <<v + 1, v + w + 1, v + w>> >>

\* the inner loop over j of row r from column c on, the counter being v
RECURSIVE RowFaces(_, _, _)
RowFaces(r, c, v) ==
    IF c >= width THEN <<>>
    ELSE (IF HasCell(r, c, width, height) THEN CellFaces(v, width) ELSE <<>>)
         \o RowFaces(r, c + 1, v + 1)

\* a row appended from its last column to its first
RowVerticesReversed(r) == [c \in 1..width |-> TerrainVertex(r, width - c)]

RowVertices(r) == [c \in 1..width |-> TerrainVertex(r, c - 1)]

\* the outer loop takes its next chunk, or ends
NextChunk ==
    /\ pc = "terrain"
    /\ IF chunk_index + 2 <= Len(ChunkStarts(height))
       THEN LET start == ChunkStarts(height)[chunk_index + 2]
            IN  /\ chunk_index' = chunk_index + 1
                /\ chunk_start' = start
                /\ chunk_end' = ChunkEnd(start, height)
                /\ i' = start
                /\ pc' = "rows"
       ELSE /\ pc' = "base"
            /\ UNCHANGED <<chunk_index, chunk_start, chunk_end, i>>
    /\ UNCHANGED <<outside, inputs, err, ctx, vertices, faces, vertex_index, visited,
                   base_vertex_start, stl_data>>

\* one row of the chunk: the whole loop over j
ProcessRow ==
    /\ pc = "rows"
    /\ i < chunk_end
    /\ vertices' = vertices \o RowVertices(i)
    /\ faces' = faces \o RowFaces(i, 0, vertex_index)
    /\ vertex_index' = vertex_index + width
    /\ visited' = Append(visited, i)
    /\ i' = i + 1
    /\ pc' = IF i + 1 < chunk_end THEN "rows" ELSE "terrain"
    /\ UNCHANGED <<outside, inputs, err, ctx, chunk_index, chunk_start, chunk_end,
                   base_vertex_start, stl_data>>

(***************************************************************************)
(* Base (lines 291-320).                                                   *)
(***************************************************************************)
\* a base level above the terrain floor instead of below it
base_zAbove == base_thickness_mm

base_z == RNeg(base_thickness_mm)

AddBase ==
    /\ pc = "base"
    /\ base_vertex_start' = Len(vertices)
    /\ vertices' = vertices \o
          << <<Q(0), Q(0), base_z>>,
             <<model_width_mm, Q(0), base_z>>,
             <<Q(0), ctx.model_height_mm, base_z>>,
             <<model_width_mm, ctx.model_height_mm, base_z>> >>
    /\ faces' = faces \o
          << <<Len(vertices), Len(vertices) + 1, Len(vertices) + 2>>,
             <<Len(vertices) + 1, Len(vertices) + 3, Len(vertices) + 2>> >>
    /\ pc' = "walls"
    /\ UNCHANGED <<outside, inputs, err, ctx, vertex_index, chunk_index, chunk_start,
                   chunk_end, i, visited, stl_data>>

(***************************************************************************)
(* Walls between the four corners (lines 323-372).                         *)
(***************************************************************************)
\* the corners in row-major order, which crosses the grid diagonally
PerimeterPointsRowMajor(w, h) == <<0, w - 1, (h - 1) * w, h * w - 1>>

\* top_left, top_right, bottom_right, bottom_left
PerimeterPoints(w, h) == <<0, w - 1, h * w - 1, (h - 1) * w>>

\* the vertices and faces the wall loop has appended after k segments
RECURSIVE WallVertices(_)
WallVertices(k) ==
    IF k = 0 THEN <<>>
    ELSE LET pp == PerimeterPoints(width, height)
             v1 == pp[k]
             v2 == pp[(k % Len(pp)) + 1]
         IN  WallVertices(k - 1) \o
             << <<vertices[v1 + 1][1], vertices[v1 + 1][2], base_z>>,
                <<vertices[v2 + 1][1], vertices[v2 + 1][2], base_z>> >>

\* wall faces whose new vertices are counted one segment too far
RECURSIVE WallFacesAhead(_)
WallFacesAhead(k) ==
    IF k = 0 THEN <<>>
    ELSE LET pp == PerimeterPoints(width, height)
             v1 == pp[k]
             v2 == pp[(k % Len(pp)) + 1]
             b1 == Len(vertices) + 2 * k
         IN  WallFacesAhead(k - 1) \o << <<v1, v2, b1>>, <<v2, b1 + 1, b1>> >>

RECURSIVE WallFaces(_)
WallFaces(k) ==
    IF k = 0 THEN <<>>
    ELSE LET pp == PerimeterPoints(width, height)
             v1 == pp[k]
             v2 == pp[(k % Len(pp)) + 1]
             b1 == Len(vertices) + 2 * (k - 1)
         IN  WallFaces(k - 1) \o << <<v1, v2, b1>>, <<v2, b1 + 1, b1>> >>

AddWalls ==
    /\ pc = "walls"
    /\ IF \A k \in 1..Len(PerimeterPoints(width, height)) :
             PerimeterPoints(width, height)[k] < Len(vertices)
       THEN /\ vertices' = vertices \o WallVertices(Len(PerimeterPoints(width, height)))
            /\ faces' = faces \o WallFaces(Len(PerimeterPoints(width, height)))
            /\ pc' = "track"
            /\ err' = err
       ELSE /\ Raise(ErrWalls)
            /\ UNCHANGED <<vertices, faces>>
    /\ UNCHANGED <<outside, inputs, ctx, vertex_index, chunk_index, chunk_start,
                   chunk_end, i, visited, base_vertex_start, stl_data>>

(***************************************************************************)
(* Track path (lines 375-441).                                             *)
(***************************************************************************)
\* a stride of the whole track, which keeps its first point only
StrideWhole(count) == Max2(1, count)

\* a stride that never downsamples
StrideNever(count) == 1

\* stride = max(1, len(track_points) // max_track_points)
Stride(count) == Max2(1, count \div max_track_points)

\* indices that start one stride late
SampledIndicesLate(count) == Range(Stride(count) - 1, count, Stride(count))

\* the original indices range(0, len(track_points), stride)
SampledIndices(count) == Range(0, count, Stride(count))

\* sampled_elevations[k], with None past the end of track_elevations
SampledElevation(p) ==
    IF p < Len(track_elevations) THEN track_elevations[p + 1] ELSE None

\* track_vertices taken from the last retained point to the first
TrackVerticesBackwards ==
    LET idx == SampledIndices(Len(track_points))
    IN  [k \in 1..Len(idx) |->
            LET p == idx[Len(idx) + 1 - k]
                point == track_points[p + 1]
                e == SampledElevation(p)
                elev == IF e # None THEN e ELSE ctx.min_elev
                v == Scaled(point.latitude, point.longitude, elev)
            IN  <<v[1], v[2], RAdd(v[3], path_elevation_mm)>>]

\* track_vertices
TrackVertices ==
    LET idx == SampledIndices(Len(track_points))
    IN  [k \in 1..Len(idx) |->
            LET point == track_points[idx[k] + 1]
                e == SampledElevation(idx[k])
                elev == IF e # None THEN e ELSE ctx.min_elev
                v == Scaled(point.latitude, point.longitude, elev)
            IN  <<v[1], v[2], RAdd(v[3], path_elevation_mm)>>]

\* the downsampling alone: sampled_track for a track of count points, or
\* the else branch of line 435 for a track of fewer than 2 points
SampleTrack ==
    /\ pc = "sample"
    /\ sampled' = IF track_length >= 2 THEN SampledIndices(track_length) ELSE sampled
    /\ pc' = "sampled"
    /\ UNCHANGED <<inputs, err, ctx, vertices, faces, vertex_index, chunk_index,
                   chunk_start, chunk_end, i, visited, base_vertex_start, stl_data,
                   service, route, concurrent, track_length>>

SamplingInit ==
    /\ Idle
    /\ pc = "sample"
    /\ RouteIdle
    /\ ServiceNew
    /\ dsm = [opens |-> TRUE, reads |-> TRUE, nodata |-> None, hole |-> FALSE]
    /\ threads = <<>>
    /\ other = <<>>
    /\ running = 0
    /\ track_length \in 0..MaxCount
    /\ sampled = <<>>

SamplingNext == SampleTrack

SamplingSpec == SamplingInit /\ [][SamplingNext]_vars

AddTrack ==
    /\ pc = "track"
    /\ IF Len(track_points) >= 2
       THEN LET tv == TrackVertices
                n == Len(tv) - 1
            IN  /\ vertices' = vertices \o
                      [k \in 1..(2 * n) |-> tv[((k + 1) \div 2) + ((k + 1) % 2)]]
                /\ faces' = faces \o
                      [k \in 1..n |-> <<Len(vertices) + 2 * (k - 1),
                                        Len(vertices) + 2 * (k - 1) + 1,
                                        base_vertex_start>>]
       ELSE UNCHANGED <<vertices, faces>>
    /\ pc' = "mesh"
    /\ UNCHANGED <<outside, inputs, err, ctx, vertex_index, chunk_index, chunk_start,
                   chunk_end, i, visited, base_vertex_start, stl_data>>

(***************************************************************************)
(* STL mesh and returned bytes (lines 444-487).                            *)
(***************************************************************************)
\* vertices[x] is defined for -len <= x < len
IndexOk(x) == -Len(vertices) <= x /\ x < Len(vertices)

VertexAt(x) == IF x >= 0 THEN vertices[x + 1] ELSE vertices[Len(vertices) + x + 1]

\* facets that take the faces last to first
FacetsBackwards == [k \in 1..Len(faces) |->
              LET f == faces[Len(faces) + 1 - k]
              IN  <<VertexAt(f[1]), VertexAt(f[2]), VertexAt(f[3])>>]

\* stl_mesh.vectors: one facet of three vertices per face
Facets == [k \in 1..Len(faces) |->
              <<VertexAt(faces[k][1]), VertexAt(faces[k][2]), VertexAt(faces[k][3])>>]

CreateMesh ==
    /\ pc = "mesh"
    /\ IF \A k \in 1..Len(faces) : \A m \in 1..3 : IndexOk(faces[k][m])
       THEN /\ stl_data' = Facets
            /\ pc' = "done"
            /\ err' = err
       ELSE /\ Raise(ErrStlFile)
            /\ stl_data' = stl_data
    /\ UNCHANGED <<outside, inputs, ctx, vertices, faces, vertex_index, chunk_index,
                   chunk_start, chunk_end, i, visited, base_vertex_start>>

(***************************************************************************)
(* Two generate_stl calls whose steps interleave.  generate_stl is a       *)
(* static method: its arguments, the scale values of lines 105-174 and the *)
(* lists vertices and faces of lines 208-209 are locals of the call frame. *)
(* The variables of the call that is running are the generator variables,  *)
(* the frame of the call that is not running is kept in other, and a       *)
(* thread switch exchanges the two.                                        *)
(***************************************************************************)
\* the frame of a call that has not started
NewFrame(grid, track, elevs, w, h, mw, am) ==
    <<grid, track, elevs, w, h, mw, am, "validate", "", Unset, <<>>, <<>>,
      0, -1, 0, 0, 0, <<>>, 0, None>>

\* the arguments of the calls that run side by side
PairArguments ==
    LET grid == MakeGrid(4, 2, <<Q(-60), Q(60)>>, <<Q(0), Q(1)>>,
                         [k \in 1..PatLen |-> Q(100 * k)])
        row  == MakeGrid(2, 2, <<Q(60), Q(60)>>, <<Q(0), Q(1)>>,
                         [k \in 1..PatLen |-> IF k = 1 THEN None ELSE Q(200)])
    IN  { NewFrame(grid, MakeTrack(2), MakeTrackElevations(2), 2, 2, Q(100), Q(1)),
          NewFrame(row, MakeTrack(3), MakeTrackElevations(1), 2, 1, Q(100), Q(2)),
          NewFrame(grid, MakeTrack(0), MakeTrackElevations(0), 2, 2, Q(100), Q(1)) }

\* a thread switch that leaves the lists vertices and faces where they are,
\* as if the two calls shared them
SwitchSharingLists ==
    /\ running \in {1, 2}
    /\ other[8] \notin {"done", "failed"}
    /\ elevation_grid' = other[1]
    /\ track_points' = other[2]
    /\ track_elevations' = other[3]
    /\ width' = other[4]
    /\ height' = other[5]
    /\ model_width_mm' = other[6]
    /\ altitude_multiplier' = other[7]
    /\ pc' = other[8]
    /\ err' = other[9]
    /\ ctx' = other[10]
    /\ vertices' = vertices
    /\ faces' = faces
    /\ vertex_index' = other[13]
    /\ chunk_index' = other[14]
    /\ chunk_start' = other[15]
    /\ chunk_end' = other[16]
    /\ i' = other[17]
    /\ visited' = other[18]
    /\ base_vertex_start' = other[19]
    /\ stl_data' = other[20]
    /\ other' = generator
    /\ running' = 3 - running
    /\ UNCHANGED <<service, route, threads, sampling>>

\* a thread switch: the running call is suspended with its frame and the
\* other call goes on from where it was, if it has not returned or raised
Switch ==
    /\ running \in {1, 2}
    /\ other[8] \notin {"done", "failed"}
    /\ elevation_grid' = other[1]
    /\ track_points' = other[2]
    /\ track_elevations' = other[3]
    /\ width' = other[4]
    /\ height' = other[5]
    /\ model_width_mm' = other[6]
    /\ altitude_multiplier' = other[7]
    /\ pc' = other[8]
    /\ err' = other[9]
    /\ ctx' = other[10]
    /\ vertices' = other[11]
    /\ faces' = other[12]
    /\ vertex_index' = other[13]
    /\ chunk_index' = other[14]
    /\ chunk_start' = other[15]
    /\ chunk_end' = other[16]
    /\ i' = other[17]
    /\ visited' = other[18]
    /\ base_vertex_start' = other[19]
    /\ stl_data' = other[20]
    /\ other' = generator
    /\ running' = 3 - running
    /\ UNCHANGED <<service, route, threads, sampling>>

PairInit ==
    /\ \E first \in PairArguments, second \in PairArguments :
          /\ elevation_grid = first[1]
          /\ track_points = first[2]
          /\ track_elevations = first[3]
          /\ width = first[4]
          /\ height = first[5]
          /\ model_width_mm = first[6]
          /\ altitude_multiplier = first[7]
          /\ other = second
    /\ InitLocals
    /\ running = 1
    /\ RouteIdle
    /\ ServiceNew
    /\ dsm = [opens |-> TRUE, reads |-> TRUE, nodata |-> None, hole |-> FALSE]
    /\ threads = <<>>
    /\ track_length = 0
    /\ sampled = <<>>

PairNext ==
    \/ Validate
    \/ ExtractData
    \/ Reshape
    \/ NextChunk
    \/ ProcessRow
    \/ AddBase
    \/ AddWalls
    \/ AddTrack
    \/ CreateMesh
    \/ Switch

PairSpec == PairInit /\ [][PairNext]_vars

Next ==
    \/ Validate
    \/ ExtractData
    \/ Reshape
    \/ NextChunk
    \/ ProcessRow
    \/ AddBase
    \/ AddWalls
    \/ AddTrack
    \/ CreateMesh

Spec == Init /\ [][Next]_vars

TypeOK ==
    /\ pc \in {"validate", "extract", "reshape", "terrain", "rows", "base",
               "walls", "track", "mesh", "done", "failed"}
    /\ (pc = "failed") = (err # "")
    /\ (pc = "done") = (stl_data # None)


(***************************************************************************)
(* convert_gpx_to_stl (backend/app/routes/gpx_to_stl.py): one request,     *)
(* from the upload check to the response.                                  *)
(***************************************************************************)
\* a form field: absent, the decimal text of a number, or another text
Field(text, num) == [text |-> text, num |-> num]

Absent == Field("absent", None)

Numeral(q) == Field("numeral", q)

Text(t) == Field(t, None)

\* int(request.form.get(name, default)): ValueError unless the text is an
\* integer numeral
IntOf(field, default) ==
    IF field.text = "absent" THEN [raised |-> FALSE, value |-> default]
    ELSE IF field.text = "numeral" /\ field.num[2] = 1
         THEN [raised |-> FALSE, value |-> field.num[1]]
    ELSE [raised |-> TRUE, value |-> 0]

\* float(request.form.get(name, default)): float accepts "nan" and "inf"
FloatOf(field, default) ==
    CASE field.text = "absent"  -> [raised |-> FALSE, value |-> default]
      [] field.text = "numeral" -> [raised |-> FALSE, value |-> field.num]
      [] field.text = "nan"     -> [raised |-> FALSE, value |-> NaN]
      [] field.text = "inf"     -> [raised |-> FALSE, value |-> <<1, 0>>]
      [] OTHER                  -> [raised |-> TRUE, value |-> None]

\* not (grid_resolution < 10 or grid_resolution > 5000)
ResolutionOk(n) == ~(n < 10 \/ n > 5000)

\* not (model_width_mm < 10 or model_width_mm > 300)
ModelWidthOk(w) == ~(RLt(w, Q(10)) \/ RGt(w, Q(300)))

\* not (altitude_multiplier <= 0 or altitude_multiplier > 5)
AltitudeOk(a) == ~(RLe(a, Q(0)) \/ RGt(a, Q(5)))

\* not (padding_factor < 0 or padding_factor > 20)
PaddingOk(p) == ~(RLt(p, Q(0)) \/ RGt(p, Q(20)))

\* jsonify({"error": msg}), status
ErrorResponse(status, msg) == [status |-> status, error |-> msg, body |-> None]

\* except ValueError as e: the message of the exception, 400
ValueErrorResponse(msg) == ErrorResponse(400, msg)

\* except Exception: the one conversion-failed message, 500
ConversionFailed ==
    ErrorResponse(500, "An error occurred during conversion. This might be due to a large or complex file, or server resource constraints.")

\* send_file(BytesIO(stl_data), ...)
SendFile(data) == [status |-> 200, error |-> "", body |-> data]

\* what the try block around the call answers for the outcome of the
\* generate_stl call of this state
CallResponse ==
    IF pc = "failed" THEN ValueErrorResponse(err)
    ELSE IF pc = "done" THEN SendFile(stl_data)
    ELSE NoResponse

Respond(r) ==
    /\ response' = r
    /\ pc' = "responded"

\* an uploaded file: an XML document that parses or not, with its trkpt,
\* rtept and wpt elements as points
Gpx(wellformed, trkpt, rtept, wpt) ==
    [wellformed |-> wellformed, trkpt |-> trkpt, rtept |-> rtept, wpt |-> wpt]

\* GpxParser.parse_gpx
parse_gpx(gpx) ==
    IF ~gpx.wellformed
    THEN [raised |-> TRUE, msg |-> "Invalid GPX data: syntax error", points |-> <<>>]
    ELSE LET points == IF gpx.trkpt # <<>> THEN gpx.trkpt
                       ELSE IF gpx.rtept # <<>> THEN gpx.rtept
                       ELSE gpx.wpt
         IN  IF points = <<>>
             THEN [raised |-> TRUE,
                   msg |-> "Error parsing GPX data: No track points found in GPX file",
                   points |-> <<>>]
             ELSE [raised |-> FALSE, msg |-> "", points |-> points]

\* track_points[::sample_ratio] for a track of more than 5000 points
Downsampled(points) ==
    IF Len(points) > 5000
    THEN LET idx == Range(0, Len(points), Max2(1, Len(points) \div 1000))
         IN  [k \in 1..Len(idx) |-> points[idx[k] + 1]]
    ELSE points

\* GpxParser.calculate_bounds of a track that is not empty
calculate_bounds(points, padding) ==
    LET lats == { points[k].latitude : k \in 1..Len(points) }
        lons == { points[k].longitude : k \in 1..Len(points) }
        min_lat == RMin(lats)
        max_lat == RMax(lats)
        min_lon == RMin(lons)
        max_lon == RMax(lons)
        center_lat == RDiv(RAdd(min_lat, max_lat), Q(2))
        center_lon == RDiv(RAdd(min_lon, max_lon), Q(2))
        grow == RAdd(Q(1), RMul(padding, Q(2)))
        padded_width_lat == RMul(RSub(max_lat, min_lat), grow)
        padded_width_lon == RMul(RSub(max_lon, min_lon), grow)
    IN  [min_latitude |-> RSub(center_lat, RDiv(padded_width_lat, Q(2))),
         max_latitude |-> RAdd(center_lat, RDiv(padded_width_lat, Q(2))),
         min_longitude |-> RSub(center_lon, RDiv(padded_width_lon, Q(2))),
         max_longitude |-> RAdd(center_lon, RDiv(padded_width_lon, Q(2)))]

\* the type of the samples results.append({...}) builds: a dict keyed by name
GridSampleKind == "dict"

\* point[2] and point[0]: an integer subscript is defined on a sequence and
\* is a KeyError on a dict that has no such key
IntegerSubscript(kind) == kind \in {"list", "tuple"}

\* the locals of generate_stl, which the route never touches
locals == <<err, ctx, vertices, faces, vertex_index, chunk_index, chunk_start,
            chunk_end, i, visited, base_vertex_start, stl_data>>

\* lines 30-38
CheckFile ==
    /\ pc = "check_file"
    /\ IF ~request.has_file THEN Respond(ErrorResponse(400, "No GPX file provided"))
       ELSE IF request.filename = "" THEN Respond(ErrorResponse(400, "Empty filename"))
       ELSE pc' = "parse_parameters" /\ response' = response
    /\ UNCHANGED <<inputs, locals, service, beyond, request, grid_resolution, padding_factor,
                   bounds, sample_kind>>

\* lines 40-63
ParseParameters ==
    /\ pc = "parse_parameters"
    /\ LET res == IntOf(request.form.resolution, 50)
           mw == FloatOf(request.form.model_width_mm, Q(100))
           am == FloatOf(request.form.altitude_multiplier, Q(1))
           pf == FloatOf(request.form.padding_factor, <<1, 5>>)
       IN  IF res.raised \/ mw.raised \/ am.raised \/ pf.raised
           THEN /\ Respond(ErrorResponse(400, "Invalid parameter format. Resolution must be an integer, model_width_mm and altitude_multiplier must be numbers."))
                /\ UNCHANGED <<grid_resolution, model_width_mm, altitude_multiplier,
                               padding_factor>>
           ELSE /\ grid_resolution' = res.value
                /\ model_width_mm' = mw.value
                /\ altitude_multiplier' = am.value
                /\ padding_factor' = pf.value
                /\ pc' = "validate_parameters"
                /\ response' = response
    /\ UNCHANGED <<elevation_grid, track_points, track_elevations, width, height,
                   locals, service, beyond, request, bounds, sample_kind>>

\* lines 65-78
ValidateParameters ==
    /\ pc = "validate_parameters"
    /\ IF ~ResolutionOk(grid_resolution)
       THEN Respond(ErrorResponse(400, "Resolution must be between 10 and 5000"))
       ELSE IF ~ModelWidthOk(model_width_mm)
       THEN Respond(ErrorResponse(400, "Model width must be between 10mm and 300mm"))
       ELSE IF ~AltitudeOk(altitude_multiplier)
       THEN Respond(ErrorResponse(400, "Altitude multiplier must be between 0 and 5"))
       ELSE IF ~PaddingOk(padding_factor)
       THEN Respond(ErrorResponse(400, "Padding factor must be between 0 and 20"))
       ELSE pc' = "parse_gpx" /\ response' = response
    /\ UNCHANGED <<inputs, locals, service, beyond, request, grid_resolution, padding_factor,
                   bounds, sample_kind>>

\* lines 81-106: read the upload, parse it, thin a very long track
ParseGpx ==
    /\ pc = "parse_gpx"
    /\ LET parsed == parse_gpx(request.gpx)
       IN  IF parsed.raised
           THEN Respond(ValueErrorResponse(parsed.msg)) /\ track_points' = track_points
           ELSE /\ track_points' = Downsampled(parsed.points)
                /\ pc' = "calculate_bounds"
                /\ response' = response
    /\ UNCHANGED <<elevation_grid, track_elevations, width, height, model_width_mm,
                   altitude_multiplier, locals, service, beyond, request, grid_resolution,
                   padding_factor, bounds, sample_kind>>

\* lines 108-112
CalculateBounds ==
    /\ pc = "calculate_bounds"
    /\ IF track_points = <<>>
       THEN Respond(ValueErrorResponse("No track points provided")) /\ bounds' = bounds
       ELSE /\ bounds' = calculate_bounds(track_points, padding_factor)
            /\ pc' = "fetch_grid"
            /\ response' = response
    /\ UNCHANGED <<inputs, locals, service, beyond, request, grid_resolution, padding_factor,
                   sample_kind>>

\* lines 114-125: the grid of the shared service; its exception is not a
\* ValueError
FetchGrid ==
    /\ pc = "fetch_grid"
    /\ LET r == ElevationGrid(dataset, dsm, opened, bounds, grid_resolution)
       IN  /\ svc' = [op |-> "get_elevation_grid", bounds |-> bounds,
                      resolution |-> grid_resolution, cached |-> dataset # None,
                      raised |-> r.raised, value |-> r.value, logged |-> r.logged]
           /\ dataset' = r.dataset
           /\ opened' = r.opened
           /\ calls' = calls + 1
           /\ IF r.raised
              THEN /\ Respond(ConversionFailed)
                   /\ UNCHANGED <<elevation_grid, width, height, sample_kind>>
              ELSE /\ elevation_grid' = r.value[1]
                   /\ width' = r.value[2]
                   /\ height' = r.value[3]
                   /\ sample_kind' = GridSampleKind
                   /\ pc' = "count_valid"
                   /\ response' = response
    /\ UNCHANGED <<track_points, track_elevations, model_width_mm, altitude_multiplier,
                   locals, dsm, closed, beyond, request, grid_resolution, padding_factor, bounds>>

\* lines 127-129: point[2] on every sample of results; the KeyError is
\* caught by except Exception.  Lines 131-182 come after it.
CountValidPoints ==
    /\ pc = "count_valid"
    /\ IF elevation_grid # <<>> /\ ~IntegerSubscript(sample_kind)
       THEN Respond(ConversionFailed)
       ELSE pc' = "track_elevations" /\ response' = response
    /\ UNCHANGED <<inputs, locals, service, beyond, request, grid_resolution, padding_factor,
                   bounds, sample_kind>>

\* the uploads and form fields of the model
GpxFiles ==
    { Gpx(FALSE, <<>>, <<>>, <<>>), Gpx(TRUE, <<>>, <<>>, <<>>),
      Gpx(TRUE, <<>>, MakeTrack(MaxTrack), <<>>),
      Gpx(TRUE, <<>>, <<>>, MakeTrack(1)) }
    \cup { Gpx(TRUE, MakeTrack(t), <<>>, MakeTrack(1)) : t \in 1..MaxTrack }

ResolutionFields ==
    { Text("abc"), Numeral(<<3, 2>>), Numeral(Q(9)), Numeral(Q(10)), Numeral(Q(5001)) }

ModelWidthFields ==
    { Absent, Text("abc"), Text("nan"), Text("inf"), Numeral(Q(9)), Numeral(Q(10)),
      Numeral(Q(300)), Numeral(Q(301)) }

AltitudeFields ==
    { Absent, Text("nan"), Numeral(Q(-1)), Numeral(Q(0)), Numeral(Q(5)), Numeral(Q(6)) }

PaddingFields ==
    { Absent, Text("nan"), Numeral(Q(-1)), Numeral(Q(0)), Numeral(Q(20)), Numeral(Q(21)) }

Form(res, mw, am, pf) ==
    [resolution |-> res, model_width_mm |-> mw, altitude_multiplier |-> am,
     padding_factor |-> pf]

GoodDsm == [opens |-> TRUE, reads |-> TRUE, nodata |-> Cell(NodataFill), hole |-> TRUE]

\* a named upload of a track of MaxTrack points, with any form fields
InitForm ==
    /\ dsm = GoodDsm
    /\ \E res \in ResolutionFields, mw \in ModelWidthFields, am \in AltitudeFields,
          pf \in PaddingFields :
            request = [has_file |-> TRUE, filename |-> "track.gpx",
                       form |-> Form(res, mw, am, pf),
                       gpx |-> Gpx(TRUE, MakeTrack(MaxTrack), <<>>, <<>>)]

\* any upload and any raster, with no form field but the resolution, or
\* with none at all
InitUpload ==
    /\ dsm \in DsmFiles
    /\ \E has_file \in BOOLEAN, filename \in {"", "track.gpx"}, gpx \in GpxFiles,
          res \in {Absent, Numeral(Q(10))} :
            request = [has_file |-> has_file, filename |-> filename,
                       form |-> Form(res, Absent, Absent, Absent), gpx |-> gpx]

RouteInit ==
    /\ Idle
    /\ pc = "check_file"
    /\ ServiceNew
    /\ Sequential
    /\ response = NoResponse
    /\ grid_resolution = 0
    /\ padding_factor = None
    /\ bounds = None
    /\ sample_kind = ""
    /\ (InitForm \/ InitUpload)

RouteNext ==
    \/ CheckFile
    \/ ParseParameters
    \/ ValidateParameters
    \/ ParseGpx
    \/ CalculateBounds
    \/ FetchGrid
    \/ CountValidPoints

RouteSpec == RouteInit /\ [][RouteNext]_vars

(***************************************************************************)
(* Properties.                                                             *)
(***************************************************************************)
NothingBuilt == ctx = Unset /\ vertices = <<>> /\ faces = <<>> /\ stl_data = None

NoGeometry == vertices = <<>> /\ faces = <<>> /\ stl_data = None

\* the terrain vertices appended so far, as positions in the flattened grid
TerrainPositions == 1..Min2(Len(vertices), width * height)

\* C1: when the terrain stage is over and the base is not added yet, the
\* mesh holds exactly width*height vertices and 2*(width-1)*(height-1) faces.
C1_TerrainCounts ==
    pc = "base" =>
        /\ Len(vertices) = width * height
        /\ Len(faces) = 2 * (width - 1) * (height - 1)

C1_Witness == pc = "base" /\ width >= 2 /\ height > ChunkRows

\* a single row-major pass over rows 0..height-1, without chunks
SinglePassVertices ==
    [k \in 1..(width * height) |-> TerrainVertex((k - 1) \div width, (k - 1) % width)]

RECURSIVE SinglePassFaces(_, _)
SinglePassFaces(r, v) ==
    IF r >= height THEN <<>>
    ELSE RowFaces(r, 0, v) \o SinglePassFaces(r + 1, v + width)

C2_Rows ==
    /\ \A k \in 1..Len(visited) : visited[k] = k - 1
    /\ pc = "base" =>
          /\ Len(visited) = height
          /\ vertices = SinglePassVertices
          /\ faces = SinglePassFaces(0, 0)

InLoop(p) == p \in {"terrain", "rows"}

\* what is left of the terrain loops: rows to visit, and the chunk to open
LoopMeasure == 2 * (height - Len(visited)) + (IF pc = "terrain" THEN 1 ELSE 0)

\* inside the loops a step is always possible and the measure is a natural
C2_LoopRuns ==
    InLoop(pc) =>
        /\ LoopMeasure >= 0
        /\ pc = "rows" => i < chunk_end

\* every step that stays inside the loops makes the measure smaller
C2_LoopStep == (InLoop(pc) /\ InLoop(pc')) => LoopMeasure' < LoopMeasure

\* C2: the rows are visited once each in increasing order, the chunked loop
\* ends with the vertex and face sequences of a single pass without chunks,
\* and the chunk loop terminates: it is never stuck and each of its steps
\* decreases a natural-number measure.
C2_ChunkedEqualsSinglePass ==
    [](C2_Rows /\ C2_LoopRuns) /\ [][C2_LoopStep]_vars

C2_Witness ==
    /\ pc = "base"
    /\ chunk_index >= 2
    /\ height % ChunkRows # 0
    /\ width >= 2

\* C3: a grid whose length is not width*height makes the call fail with
\* the invalid-grid error, with no bound, scale, vertex or face computed and
\* no bytes returned.
C3_InvalidGridFailsFirst ==
    Len(elevation_grid) # width * height =>
        /\ pc \in {"validate", "failed"}
        /\ pc = "failed" => err = ErrInvalidGrid
        /\ NothingBuilt

C3_Witness ==
    /\ Len(elevation_grid) > width * height
    /\ track_points # <<>>
    /\ pc = "failed"
    /\ err = ErrInvalidGrid

\* C4 as stated: an empty track makes the call fail with the missing-track
\* error, whatever the grid.
C4_EmptyTrackAlwaysMissingTrack ==
    track_points = <<>> =>
        /\ pc \in {"validate", "failed"}
        /\ pc = "failed" => err = ErrTrackRequired
        /\ NothingBuilt

\* C4: an empty track with a grid that passes the size check makes the call
\* fail with the missing-track error, and nothing is built or returned.
C4_EmptyTrackFails ==
    (track_points = <<>> /\ GridSizeOk(elevation_grid, width, height)) =>
        /\ pc \in {"validate", "failed"}
        /\ pc = "failed" => err = ErrTrackRequired
        /\ NothingBuilt

C4_Witness ==
    /\ track_points = <<>>
    /\ GridSizeOk(elevation_grid, width, height)
    /\ pc = "failed"
    /\ err = ErrTrackRequired

\* None, NaN or the nodata sentinel
MissingElevation(e) == e = None \/ e = NaN \/ e = Q(NodataFill)

AllMissing(grid) == \A k \in 1..Len(grid) : MissingElevation(grid[k][3])

\* C5 as stated: a correctly sized grid with every elevation missing makes
\* the call fail with the empty-elevation-range error, whatever the track.
C5_AllMissingAlwaysEmptyRange ==
    (GridSizeOk(elevation_grid, width, height) /\ AllMissing(elevation_grid)) =>
        /\ pc \in {"validate", "extract", "failed"}
        /\ pc = "failed" => err = ErrElevationData
        /\ NoGeometry

\* C5: a correctly sized grid with every elevation missing, given with a
\* track that is not empty, makes the call fail with the empty-elevation-range
\* error; no mesh is built and no bytes are returned.
C5_AllMissingFails ==
    (/\ GridSizeOk(elevation_grid, width, height)
     /\ AllMissing(elevation_grid)
     /\ track_points # <<>>) =>
        /\ pc \in {"validate", "extract", "failed"}
        /\ pc = "failed" => err = ErrElevationData
        /\ NoGeometry

C5_Witness ==
    /\ GridSizeOk(elevation_grid, width, height)
    /\ AllMissing(elevation_grid)
    /\ \E k \in 1..Len(elevation_grid) : elevation_grid[k][3] = Q(NodataFill)
    /\ track_points # <<>>
    /\ pc = "failed"
    /\ err = ErrElevationData

SameLongitude(grid) == \A k, m \in 1..Len(grid) : grid[k][2] = grid[m][2]

\* C6: a grid whose samples all have the same longitude never gets past the
\* data extraction: the call fails there and returns no bytes.
C6_DegenerateExtentFails ==
    SameLongitude(elevation_grid) =>
        /\ pc \in {"validate", "extract", "failed"}
        /\ NoGeometry

\* C7: a terrain vertex made from a sample whose elevation is missing
\* (None, NaN or -9999) has z = 0, the z of the minimum valid elevation.
C7_MissingAtMinimum ==
    \A k \in TerrainPositions :
        MissingElevation(elevation_grid[k][3]) => vertices[k][3] = Q(0)

\* C8: when the terrain is built, no terrain vertex has z < 0 and at least
\* one has z = 0.
C8_MinimumZIsZero ==
    pc = "base" =>
        /\ \A k \in TerrainPositions : ~RLt(vertices[k][3], Q(0))
        /\ \E k \in TerrainPositions : vertices[k][3] = Q(0)

\* C9: on a flat grid z_scale is altitude_multiplier and every terrain
\* vertex has z = 0; otherwise z_scale is
\* 0.1 * model_width_mm / (max_elev - min_elev) * altitude_multiplier.
C9_ZScale ==
    ctx.z_scale # None =>
        IF ctx.max_elev = ctx.min_elev
        THEN /\ ctx.z_scale = altitude_multiplier
             /\ \A k \in TerrainPositions : vertices[k][3] = Q(0)
        ELSE ctx.z_scale =
                RMul(RDiv(RMul(<<1, 10>>, model_width_mm),
                          RSub(ctx.max_elev, ctx.min_elev)),
                     altitude_multiplier)

\* C10 as stated: y_scale >= x_scale for every center latitude other than
\* 0, latitudes outside [-90, 90] included, and y_scale = x_scale at 0.
\* Stated on the grids whose longitudes differ, where x_scale is finite.
C10_YScaleAtLeastXScaleAnyLatitude ==
    (ctx.y_scale # None /\ IsFinite(ctx.x_scale)) =>
        IF CenterLat = Q(0) THEN ctx.y_scale = ctx.x_scale
        ELSE RLe(ctx.x_scale, ctx.y_scale)

\* C10: y_scale >= x_scale when 0 < |center_lat| < 90, and
\* y_scale = x_scale when center_lat = 0.
C10_YScaleAtLeastXScale ==
    ctx.y_scale # None =>
        /\ CenterLat = Q(0) => ctx.y_scale = ctx.x_scale
        /\ (RLt(Q(0), RAbs(CenterLat)) /\ RLt(RAbs(CenterLat), Q(90))) =>
              RLe(ctx.x_scale, ctx.y_scale)

C10_Witness ==
    /\ ctx.y_scale # None
    /\ RAbs(CenterLat) = Q(60)
    /\ IsFinite(ctx.x_scale)
    /\ RLt(ctx.x_scale, ctx.y_scale)

\* what the terrain, base and wall stages leave behind
TerrainVertexCount == width * height

TerrainFaceCount == 2 * (width - 1) * (height - 1)

SolidVertexCount == TerrainVertexCount + 4 + 8

SolidFaceCount == TerrainFaceCount + 2 + 8

\* the points the track stage retains: ceil(count / stride)
Retained(count) == (count + Stride(count) - 1) \div Stride(count)

\* C11: a track of exactly one point is not an error: the call gets through
\* the track stage with no track vertex and no track face, it never fails
\* after the data extraction, and it returns the facets of the terrain, the
\* base and the walls.  A track of at least 2 points keeps at least 2 points
\* after downsampling and adds at least one track face (one per segment).
C11_SinglePointTrackSkipped ==
    /\ (Len(track_points) = 1 /\ pc \in {"mesh", "done"}) =>
          /\ Len(vertices) = SolidVertexCount
          /\ Len(faces) = SolidFaceCount
          /\ pc = "done" => Len(stl_data) = SolidFaceCount
    /\ (Len(track_points) = 1 /\ pc = "failed") =>
          err \in {ErrInvalidGrid, ErrElevationData}
    /\ (Len(track_points) >= 2 /\ pc \in {"mesh", "done"}) =>
          /\ Len(SampledIndices(Len(track_points))) >= 2
          /\ Len(SampledIndices(Len(track_points))) = Retained(Len(track_points))
          /\ Len(faces) = SolidFaceCount + Retained(Len(track_points)) - 1
          /\ Len(faces) >= SolidFaceCount + 1

C11_Witness ==
    /\ pc = "done"
    /\ Len(track_points) >= 2 * max_track_points
    /\ Stride(Len(track_points)) = 2
    /\ Len(faces) > SolidFaceCount

C11_WitnessSinglePoint ==
    /\ pc = "done"
    /\ Len(track_points) = 1
    /\ Len(stl_data) = SolidFaceCount

\* the stage a face belongs to, told by the vertices it names
FaceStage(f) ==
    IF f[1] >= SolidVertexCount THEN "track"
    ELSE IF f[3] >= TerrainVertexCount + 4 THEN "walls"
    ELSE IF f[1] >= TerrainVertexCount THEN "base"
    ELSE "terrain"

StageRank(s) ==
    CASE s = "terrain" -> 0 [] s = "base" -> 1 [] s = "walls" -> 2 [] s = "track" -> 3

\* C12: the returned mesh has exactly one facet per face, in the order of
\* the faces (terrain, then base, then walls, then track), and facet k holds
\* the coordinates of vertices[faces[k][0]], vertices[faces[k][1]],
\* vertices[faces[k][2]] in that order.
C12_OneFacetPerFaceInOrder ==
    pc = "done" =>
        /\ Len(stl_data) = Len(faces)
        /\ \A k \in 1..Len(faces) :
              /\ Len(stl_data[k]) = 3
              /\ \A m \in 1..3 : stl_data[k][m] = vertices[faces[k][m] + 1]
        /\ \A k \in 1..(Len(faces) - 1) :
              StageRank(FaceStage(faces[k])) <= StageRank(FaceStage(faces[k + 1]))
        /\ \A k \in 1..Len(faces) :
              FaceStage(faces[k]) =
                  IF k <= TerrainFaceCount THEN "terrain"
                  ELSE IF k <= TerrainFaceCount + 2 THEN "base"
                  ELSE IF k <= SolidFaceCount THEN "walls"
                  ELSE "track"

C12_Witness ==
    /\ pc = "done"
    /\ TerrainFaceCount > 0
    /\ Len(faces) > SolidFaceCount
    /\ stl_data[1] # stl_data[Len(faces)]

\* C19: all through the terrain stage, chunk boundaries included, the
\* counter vertex_index equals the number of vertices appended so far, and
\* the vertex at index r*width + c is the one of grid position (r, c).
C19_VertexIndexIsCount ==
    pc \in {"terrain", "rows", "base"} =>
        /\ vertex_index = Len(vertices)
        /\ vertex_index = Len(visited) * width
        /\ \A r \in 0..(Len(visited) - 1) : \A c \in 0..(width - 1) :
              vertices[r * width + c + 1] = TerrainVertex(r, c)

C19_Witness ==
    /\ pc = "rows"
    /\ chunk_index >= 1
    /\ i = chunk_start
    /\ vertex_index = ChunkRows * width
    /\ width >= 2
    /\ vertices[1] # vertices[2]

\* the corner index of grid position (r, c)
V(r, c) == r * width + c

NoElevation(call) ==
    \/ ~call.cached /\ ~dsm.opens
    \/ RLt(call.lon, RasterBounds.left) \/ RGt(call.lon, RasterBounds.right)
    \/ RLt(call.lat, RasterBounds.bottom) \/ RGt(call.lat, RasterBounds.top)
    \/ call.sample.kind = "stop"
    \/ call.sample.kind = "raise"
    \/ dsm.nodata # None /\ call.sample.value = dsm.nodata
    \/ call.sample.value = None

\* C16: get_point_elevation never raises.  It returns None when opening the
\* dataset raises, when the point is outside the raster bounds, when the
\* sampler yields nothing or raises, when the value equals the nodata value
\* and when the value is None; in every other case it returns the sampled
\* value as a float.
C16_PointElevationNeverRaises ==
    svc.op = "get_point_elevation" =>
        /\ ~svc.raised
        /\ IF NoElevation(svc) THEN svc.value = None
           ELSE svc.value = Q(svc.sample.value[1])

C16_Witness ==
    /\ svc.op = "get_point_elevation"
    /\ ~svc.cached
    /\ ~dsm.opens
    /\ svc.value = None
    /\ svc.logged = 1

C16_WitnessValue ==
    /\ svc.op = "get_point_elevation"
    /\ dsm.nodata # None
    /\ svc.value = Q(150)

\* C17: for every resolution >= 1 get_elevation_grid returns
\* (results, resolution, resolution) with resolution*resolution samples in
\* row-major order, the latitude in the outer loop and ascending, the
\* longitude in the inner loop, and the sample at (r, c) takes the raster
\* cell (resolution-r-1, c): None if it holds the nodata value, its float
\* otherwise.  When opening or reading raises, the exception is logged once
\* and raised again, and no grid is returned.
C17_GridShape ==
    svc.op = "get_elevation_grid" =>
        LET n == svc.resolution
            b == svc.bounds
            failure == (~svc.cached /\ ~dsm.opens) \/ ~dsm.reads
        IN  IF failure
            THEN svc.raised /\ svc.logged = 1 /\ svc.value = None
            ELSE /\ ~svc.raised
                 /\ svc.logged = 0
                 /\ Len(svc.value) = 3
                 /\ svc.value[2] = n
                 /\ svc.value[3] = n
                 /\ Len(svc.value[1]) = n * n
                 /\ Len(svc.value[1]) = svc.value[2] * svc.value[3]
                 /\ \A r \in 0..(n - 1) : \A c \in 0..(n - 1) :
                       LET s == svc.value[1][r * n + c + 1]
                           cell == CellValue(dsm, n - r - 1, c)
                       IN  /\ s.latitude = LinSpace(b.min_latitude, b.max_latitude, n)[r + 1]
                           /\ s.longitude = LinSpace(b.min_longitude, b.max_longitude, n)[c + 1]
                           /\ s.elevation =
                                 IF dsm.nodata # None /\ cell = dsm.nodata THEN None
                                 ELSE Q(cell[1])
                 /\ \A k \in 1..(n * n - 1) :
                       RLe(svc.value[1][k].latitude, svc.value[1][k + 1].latitude)

C17_Witness ==
    /\ svc.op = "get_elevation_grid"
    /\ ~svc.raised
    /\ svc.resolution = MaxResolution
    /\ dsm.hole
    /\ dsm.nodata # None
    /\ svc.value[1][1].elevation # None
    /\ svc.value[1][MaxResolution * (MaxResolution - 1) + 1].elevation = None
    /\ RLt(svc.value[1][1].latitude, svc.value[1][MaxResolution * MaxResolution].latitude)

C17_WitnessFailure ==
    /\ svc.op = "get_elevation_grid"
    /\ svc.raised
    /\ svc.cached
    /\ ~dsm.reads

\* C14: a generate_stl call that fails has run no later stage and returns
\* no bytes, and the route answers every such failure with one and the same
\* conversion-failed response, which carries no STL bytes.
C14_FailureIsConversionFailed ==
    pc = "failed" =>
        /\ stl_data = None
        /\ err \in {ErrInvalidGrid, ErrTrackRequired} => NothingBuilt
        /\ err = ErrElevationData => NoGeometry
        /\ CallResponse.body = None
        /\ CallResponse = ConversionFailed

\* the points parse_gpx takes from the upload
UploadedPoints == parse_gpx(request.gpx).points

\* the form fields as numbers, when all of them parse
FormValues ==
    [resolution |-> IntOf(request.form.resolution, 50),
     model_width_mm |-> FloatOf(request.form.model_width_mm, Q(100)),
     altitude_multiplier |-> FloatOf(request.form.altitude_multiplier, Q(1)),
     padding_factor |-> FloatOf(request.form.padding_factor, <<1, 5>>)]

FormParses ==
    /\ ~FormValues.resolution.raised
    /\ ~FormValues.model_width_mm.raised
    /\ ~FormValues.altitude_multiplier.raised
    /\ ~FormValues.padding_factor.raised

\* lo <= x <= hi
Within(x, lo, hi) == RLe(Q(lo), x) /\ RLe(x, Q(hi))

\* every parameter inside its range
FormInRange ==
    /\ FormParses
    /\ 10 <= FormValues.resolution.value /\ FormValues.resolution.value <= 5000
    /\ Within(FormValues.model_width_mm.value, 10, 300)
    /\ Within(FormValues.altitude_multiplier.value, 0, 5)
    /\ Within(FormValues.padding_factor.value, 0, 20)

\* a GPX upload with at least two distinct track points, in-range
\* parameters and a readable raster
ValidRequest ==
    /\ request.has_file
    /\ request.filename # ""
    /\ request.gpx.wellformed
    /\ \E k, m \in 1..Len(UploadedPoints) : UploadedPoints[k] # UploadedPoints[m]
    /\ FormInRange
    /\ ~RLe(FormValues.altitude_multiplier.value, Q(0))
    /\ dsm.opens
    /\ dsm.reads

\* C15: a request with a GPX file of at least two distinct track points,
\* in-range parameters and a readable raster ends in a success response that
\* carries the STL bytes, and every sample of the grid the service returns
\* can be read by position, as generate_stl and the route read it.
C15_ValidRequestSucceeds ==
    ValidRequest =>
        /\ pc = "responded" => (response.status = 200 /\ response.body # None)
        /\ elevation_grid # <<>> => IntegerSubscript(sample_kind)

\* the request has got past the validation of its parameters
PastValidation ==
    pc \in {"parse_gpx", "calculate_bounds", "fetch_grid", "count_valid",
            "track_elevations"}
    \/ (pc = "responded" /\ (track_points # <<>> \/ calls > 0))

\* C18: a request with a resolution, model width, altitude multiplier or
\* padding factor outside its range is answered with a 400 error before the
\* GPX file is parsed and before any elevation is fetched, so that every
\* model_width_mm on its way to generate_stl lies in [10, 300] and every
\* altitude_multiplier in [0, 5].
C18_OutOfRangeRejectedFirst ==
    /\ (FormParses /\ ~FormInRange) =>
          /\ ~PastValidation
          /\ track_points = <<>>
          /\ calls = 0
          /\ pc = "responded" => response.status = 400
    /\ PastValidation =>
          /\ Within(model_width_mm, 10, 300)
          /\ Within(altitude_multiplier, 0, 5)

\* C21: when the call reaches serialisation, every index of every face
\* (terrain, base, wall and track) names an existing vertex,
\* 0 <= index < len(vertices), for every accepted width and height, grids of
\* one row or one column included.
C21_FaceIndicesInRange ==
    pc \in {"mesh", "done"} =>
        \A k \in 1..Len(faces) : \A m \in 1..3 :
            /\ 0 <= faces[k][m]
            /\ faces[k][m] < Len(vertices)

\* a grid of one column reaches serialisation with base, wall and track faces
C21_Witness ==
    /\ pc = "mesh"
    /\ width = 1
    /\ height = 2
    /\ Len(track_points) = 2
    /\ Len(faces) = SolidFaceCount + 1

\* inside the terrain loop a face names a vertex of the row still to come
C21_WitnessForwardReference ==
    /\ pc = "rows"
    /\ \E k \in 1..Len(faces) : faces[k][3] >= Len(vertices)

\* the stages after the base stage
AfterBase == {"walls", "track", "mesh", "done"}

\* C22: the base stage appends exactly 4 vertices, at indices
\* width*height .. width*height+3, all with z = -base_thickness_mm and at the
\* four corners of [0, model_width_mm] x [0, model_height_mm], and exactly 2
\* faces, which use all four vertices, share one diagonal and have the two
\* remaining corners as their third vertices.
C22_BaseRectangle ==
    LET b  == width * height
        z  == RNeg(base_thickness_mm)
        f1 == faces[TerrainFaceCount + 1]
        f2 == faces[TerrainFaceCount + 2]
        S1 == {f1[1], f1[2], f1[3]}
        S2 == {f2[1], f2[2], f2[3]}
    IN  /\ pc = "walls" =>
              /\ Len(vertices) = b + 4
              /\ Len(faces) = TerrainFaceCount + 2
        /\ pc \in AfterBase =>
              /\ base_vertex_start = b
              /\ \A k \in 1..4 : vertices[b + k][3] = z
              /\ vertices[b + 1] = <<Q(0), Q(0), z>>
              /\ vertices[b + 2] = <<model_width_mm, Q(0), z>>
              /\ vertices[b + 3] = <<Q(0), ctx.model_height_mm, z>>
              /\ vertices[b + 4] = <<model_width_mm, ctx.model_height_mm, z>>
              /\ S1 \cup S2 = b..(b + 3)
              /\ S1 \cap S2 = {b + 1, b + 2}
              /\ Cardinality(S1) = 3
              /\ Cardinality(S2) = 3

\* a base under a grid whose model rectangle has a positive height
C22_Witness ==
    /\ pc = "walls"
    /\ width = 2
    /\ height = 2
    /\ IsFinite(ctx.model_height_mm)
    /\ RGt(ctx.model_height_mm, Q(0))
    /\ Len(vertices) = width * height + 4

\* the stages after the wall stage
AfterWalls == {"track", "mesh", "done"}

\* C23: the wall stage joins the terrain corners 0, width-1, height*width-1,
\* (height-1)*width pairwise in that cyclic order, the last pair closing the
\* loop at index 0; for each of the 4 pairs (v1, v2) it appends 2 vertices
\* that copy x and y of v1 and of v2 with z = -base_thickness_mm, and the 2
\* faces [v1, v2, b1] and [v2, b2, b1]: 8 vertices and 8 faces for every grid
\* size.
C23_WallsAroundCorners ==
    LET corner == [s \in 1..4 |->
                     IF s = 1 THEN 0
                     ELSE IF s = 2 THEN width - 1
                     ELSE IF s = 3 THEN height * width - 1
                     ELSE (height - 1) * width]
        z == RNeg(base_thickness_mm)
    IN  /\ pc = "track" =>
              /\ Len(vertices) = TerrainVertexCount + 4 + 8
              /\ Len(faces) = TerrainFaceCount + 2 + 8
        /\ pc \in AfterWalls =>
              \A s \in 1..4 :
                  LET v1 == corner[s]
                      v2 == corner[IF s = 4 THEN 1 ELSE s + 1]
                      b1 == TerrainVertexCount + 4 + 2 * (s - 1)
                      b2 == b1 + 1
                      f  == TerrainFaceCount + 2 + 2 * (s - 1)
                  IN  /\ vertices[b1 + 1] =
                            <<vertices[v1 + 1][1], vertices[v1 + 1][2], z>>
                      /\ vertices[b2 + 1] =
                            <<vertices[v2 + 1][1], vertices[v2 + 1][2], z>>
                      /\ faces[f + 1] = <<v1, v2, b1>>
                      /\ faces[f + 2] = <<v2, b2, b1>>

\* walls around a grid whose four corners are four different vertices
C23_Witness ==
    /\ pc = "track"
    /\ width = 2
    /\ height = 2
    /\ Len(faces) = TerrainFaceCount + 2 + 8

\* walls around a grid of one sample, whose four corners are vertex 0
C23_WitnessOneSample ==
    /\ pc = "track"
    /\ width = 1
    /\ height = 1
    /\ Len(vertices) = 1 + 4 + 8

\* max(1, count // 200), written out
StrideOf(count) ==
    IF count \div max_track_points >= 1 THEN count \div max_track_points ELSE 1

\* the number of indices 0, stride, 2*stride, ... below count
KeptOf(count) == (count + StrideOf(count) - 1) \div StrideOf(count)

\* the j-th point of the path, read back from the vertex list: segment j
\* starts with it, and segment j-1 ends with it
PathVertex(j) ==
    IF j < KeptOf(Len(track_points))
    THEN vertices[SolidVertexCount + 2 * (j - 1) + 1]
    ELSE vertices[SolidVertexCount + 2 * (j - 1)]

\* x and y of the track point with original index p
Projected(p) ==
    << RMul(RSub(track_points[p + 1].longitude, ctx.min_lon), ctx.x_scale),
       RMul(RSub(track_points[p + 1].latitude, ctx.min_lat), ctx.y_scale) >>

\* C24: for a track of count >= 2 points the retained points are exactly the
\* points at original indices 0, stride, 2*stride, ... below count, in
\* order, with stride = max(1, count // 200); a track of at most 200 points
\* is retained unchanged.  The path is a function of the arguments, so the
\* same input always retains the same points.
C24_RetainedPoints ==
    LET count  == Len(track_points)
        stride == StrideOf(count)
        kept   == KeptOf(count)
    IN  (pc \in {"mesh", "done"} /\ count >= 2) =>
            /\ (kept - 1) * stride < count
            /\ kept * stride >= count
            /\ count <= max_track_points => (stride = 1 /\ kept = count)
            /\ Len(vertices) = SolidVertexCount + 2 * (kept - 1)
            /\ \A j \in 1..kept :
                  /\ PathVertex(j)[1] = Projected((j - 1) * stride)[1]
                  /\ PathVertex(j)[2] = Projected((j - 1) * stride)[2]
            /\ \A j \in 1..(kept - 2) :
                  vertices[SolidVertexCount + 2 * j] =
                      vertices[SolidVertexCount + 2 * j + 1]

\* a track of two strides of points, of which every second one is retained
C24_Witness ==
    /\ pc = "done"
    /\ Len(track_points) = 2 * max_track_points + 1
    /\ Len(vertices) = SolidVertexCount + 2 * max_track_points
    /\ PathVertex(2)[1] = Projected(2)[1]
    /\ PathVertex(2)[1] # Projected(1)[1]

\* a track of max_track_points points, retained unchanged
C24_WitnessUnchanged ==
    /\ pc = "done"
    /\ Len(track_points) = max_track_points
    /\ Len(vertices) = SolidVertexCount + 2 * (max_track_points - 1)

\* z of a path vertex whose point has elevation elev
PathZ(elev) ==
    RAdd(RMul(RSub(elev, ctx.min_elev), ctx.z_scale), path_elevation_mm)

\* the stages a call fails in when the track stage raises
TrackStageFailed == pc = "failed" /\ Len(vertices) >= SolidVertexCount

\* C25: for each retained track point with original index p the elevation
\* used is track_elevations[p] when p < len(track_elevations) and that value
\* is not missing, and min_elev otherwise; no index error occurs for any
\* length of track_elevations from 0 up to the track length, and the path
\* vertex is (lon-min_lon)*x_scale, (lat-min_lat)*y_scale,
\* (elev-min_elev)*z_scale + path_elevation_mm with the scales of the terrain.
C25_PathElevation ==
    LET count  == Len(track_points)
        stride == StrideOf(count)
    IN  /\ ~TrackStageFailed
        /\ (pc \in {"mesh", "done"} /\ count >= 2) =>
              \A j \in 1..KeptOf(count) :
                  LET p    == (j - 1) * stride
                      elev == IF p < Len(track_elevations)
                                 /\ ~MissingElevation(track_elevations[p + 1])
                              THEN track_elevations[p + 1]
                              ELSE ctx.min_elev
                  IN  PathVertex(j) =
                          <<Projected(p)[1], Projected(p)[2], PathZ(elev)>>

\* what the code does: only None is replaced by min_elev (line 405), a NaN
\* or a sentinel of track_elevations is used as it is; the index guards of
\* lines 387 and 404 hold for every length of track_elevations
PathElevationNotNone ==
    LET count  == Len(track_points)
        stride == StrideOf(count)
    IN  /\ ~TrackStageFailed
        /\ (pc \in {"mesh", "done"} /\ count >= 2) =>
              \A j \in 1..KeptOf(count) :
                  LET p    == (j - 1) * stride
                      elev == IF p < Len(track_elevations)
                                 /\ track_elevations[p + 1] # None
                              THEN track_elevations[p + 1]
                              ELSE ctx.min_elev
                  IN  PathVertex(j) =
                          <<Projected(p)[1], Projected(p)[2], PathZ(elev)>>

\* a path built from fewer elevations than points, one of them None
PathElevationWitness ==
    /\ pc = "done"
    /\ Len(track_points) = 3
    /\ Len(track_elevations) = 2
    /\ track_elevations[2] = None
    /\ PathVertex(1)[3] # PathVertex(2)[3]
    /\ PathVertex(2)[3] = PathVertex(3)[3]

\* a path built with no elevation at all
PathElevationWitnessEmpty ==
    /\ pc = "done"
    /\ Len(track_points) = 2
    /\ track_elevations = <<>>
    /\ PathVertex(1)[3] = path_elevation_mm

\* C26: with k >= 2 retained track points the track stage appends exactly
\* 2*(k-1) vertices and k-1 faces: for each consecutive pair (t, t+1) it
\* appends both projected points as new vertices at indices v1 and v1+1 and
\* one face [v1, v1+1, width*height], whose third index is the first base
\* vertex.
C26_TrackSegments ==
    LET count  == Len(track_points)
        stride == StrideOf(count)
        kept   == KeptOf(count)
    IN  (pc \in {"mesh", "done"} /\ count >= 2) =>
            /\ kept >= 2
            /\ Len(vertices) = SolidVertexCount + 2 * (kept - 1)
            /\ Len(faces) = SolidFaceCount + (kept - 1)
            /\ \A t \in 1..(kept - 1) :
                  LET v1 == SolidVertexCount + 2 * (t - 1)
                  IN  /\ faces[SolidFaceCount + t] = <<v1, v1 + 1, width * height>>
                      /\ vertices[v1 + 1][1] = Projected((t - 1) * stride)[1]
                      /\ vertices[v1 + 1][2] = Projected((t - 1) * stride)[2]
                      /\ vertices[v1 + 2][1] = Projected(t * stride)[1]
                      /\ vertices[v1 + 2][2] = Projected(t * stride)[2]
            /\ vertices[width * height + 1] =
                  <<Q(0), Q(0), RNeg(base_thickness_mm)>>

\* a path of two segments over three retained points
C26_Witness ==
    /\ pc = "done"
    /\ Len(track_points) = 3
    /\ Len(vertices) = SolidVertexCount + 4
    /\ Len(faces) = SolidFaceCount + 2
    /\ faces[SolidFaceCount + 2] = <<SolidVertexCount + 2, SolidVertexCount + 3, 4>>

\* the call a step makes is a query
IsQuery(call) == call.op \in {"get_point_elevation", "get_elevation_grid"}

\* C27: over any sequence of get_point_elevation, get_elevation_grid and
\* close calls made one after another on one service, the dataset is opened
\* only when none is cached: a query on a cached dataset keeps it and opens
\* nothing, a query with no cached dataset opens the file once and caches
\* what it opened, close() closes the cached dataset and resets the cache,
\* and close() on a closed service does nothing.
C27_OpenedOnlyWhenNotCached ==
    [][ /\ opened' \in {opened, opened + 1}
        /\ opened' = opened + 1 =>
              /\ dataset = None
              /\ IsQuery(svc')
              /\ dataset' # None
              /\ dataset' \notin closed'
        /\ (IsQuery(svc') /\ dataset # None) =>
              /\ dataset' = dataset
              /\ opened' = opened
              /\ closed' = closed
        /\ (IsQuery(svc') /\ dataset = None) =>
              /\ closed' = closed
              /\ IF dsm.opens
                 THEN opened' = opened + 1 /\ dataset' # None
                 ELSE opened' = opened /\ dataset' = None
        /\ svc'.op = "close" =>
              /\ dataset' = None
              /\ opened' = opened
              /\ closed' = IF dataset = None THEN closed
                            ELSE closed \cup {dataset}
      ]_vars

\* a query, a close and a query: the second query has opened the file again
C27_Witness ==
    /\ opened = 2
    /\ closed = {<<1>>}
    /\ dataset = <<2>>
    /\ IsQuery(svc)

\* two queries in a row: one open
C27_WitnessReuse ==
    /\ calls = 2
    /\ IsQuery(svc)
    /\ svc.cached
    /\ opened = 1

\* close() on a service that has no dataset
C27_WitnessCloseClosed ==
    /\ svc.op = "close"
    /\ ~svc.cached
    /\ closed = {}

\* C29: for every track length count >= 2 the number k of retained points
\* satisfies 2 <= k <= count and k <= 399, with
\* k = ceil(count / max(1, count // 200)), so the track stage adds at most
\* 398 faces (one per pair of consecutive retained points) whatever the
\* track length.
C29_RetainedCountBounded ==
    (pc = "sampled" /\ track_length >= 2) =>
        LET k == Len(sampled)
        IN  /\ 2 <= k
            /\ k <= track_length
            /\ k <= 2 * max_track_points - 1
            /\ k = KeptOf(track_length)
            /\ k * StrideOf(track_length) >= track_length
            /\ (k - 1) * StrideOf(track_length) < track_length
            /\ k - 1 <= 398

\* the longest track that is not downsampled retains the most points
C29_Witness ==
    /\ pc = "sampled"
    /\ track_length = 2 * max_track_points - 1
    /\ Len(sampled) = 399

\* a longer track retains fewer
C29_WitnessLonger ==
    /\ pc = "sampled"
    /\ track_length = 3 * max_track_points - 1
    /\ Len(sampled) = 300

\* the datasets some thread or the service still refers to
Referenced ==
    {dataset} \cup {threads[t].handle : t \in Threads}

\* C30: when two requests call into the shared service at the same time and
\* no dataset is cached yet, the dataset is opened at most once, both
\* requests read from the same cached dataset, and no opened dataset is left
\* unreferenced and unclosed.
C30_OpenedAtMostOnce ==
    /\ opened <= 1
    /\ \A t \in Threads, u \in Threads :
          (threads[t].pc \in {"reading", "left"} /\ threads[u].pc \in {"reading", "left"})
              => threads[t].handle = threads[u].handle
    /\ \A n \in 1..opened : <<n>> \in Referenced \/ <<n>> \in closed

\* both requests found no dataset cached and each has opened the file
DoubleOpen ==
    /\ opened = 2
    /\ \A t \in Threads : threads[t].pc = "left"

\* a dataset that was opened is neither cached nor closed nor in use
LeakedDataset ==
    /\ \A t \in Threads : threads[t].pc = "left"
    /\ \E n \in 1..opened : <<n>> # dataset /\ <<n>> \notin closed

\* what a call computes from its arguments when it runs alone: the scale
\* values of lines 105-174
AloneCtx ==
    LET min_lon == RMin(Lons(elevation_grid))
        min_lat == RMin(Lats(elevation_grid))
        max_lon == RMax(Lons(elevation_grid))
        max_lat == RMax(Lats(elevation_grid))
        min_elev == RMin(ValidElevs(elevation_grid))
        max_elev == RMax(ValidElevs(elevation_grid))
        x_scale == XScale(model_width_mm, RSub(max_lon, min_lon))
        y_scale == YScale(x_scale, RDiv(RAdd(min_lat, max_lat), Q(2)))
    IN  [min_lon |-> min_lon, min_lat |-> min_lat,
         max_lon |-> max_lon, max_lat |-> max_lat,
         min_elev |-> min_elev, max_elev |-> max_elev,
         x_scale |-> x_scale, y_scale |-> y_scale,
         model_height_mm |-> RMul(RSub(max_lat, min_lat), y_scale),
         z_scale |-> ZScale(RSub(max_elev, min_elev), model_width_mm,
                            altitude_multiplier)]

\* the corner the k-th wall vertex stands under
WallCorner(k) ==
    LET pp == PerimeterPoints(width, height)
        s  == (k + 1) \div 2
    IN  IF k % 2 = 1 THEN pp[s] ELSE pp[(s % 4) + 1]

\* the vertex list of a call that runs alone: terrain, base, walls, path
AloneVertices ==
    LET terrain == SinglePassVertices
        z == RNeg(base_thickness_mm)
        base == << <<Q(0), Q(0), z>>,
                   <<model_width_mm, Q(0), z>>,
                   <<Q(0), ctx.model_height_mm, z>>,
                   <<model_width_mm, ctx.model_height_mm, z>> >>
        walls == [k \in 1..8 |-> <<terrain[WallCorner(k) + 1][1],
                                    terrain[WallCorner(k) + 1][2], z>>]
        tv == TrackVertices
        path == IF Len(track_points) >= 2
                THEN [k \in 1..(2 * (Len(tv) - 1)) |->
                         tv[((k + 1) \div 2) + ((k + 1) % 2)]]
                ELSE <<>>
    IN  terrain \o base \o walls \o path

\* the face list of a call that runs alone
AloneFaces ==
    LET b == width * height
        pp == PerimeterPoints(width, height)
        base == << <<b, b + 1, b + 2>>, <<b + 1, b + 3, b + 2>> >>
        walls == [k \in 1..8 |->
                    LET s  == (k + 1) \div 2
                        v1 == pp[s]
                        v2 == pp[(s % 4) + 1]
                        b1 == b + 4 + 2 * (s - 1)
                    IN  IF k % 2 = 1 THEN <<v1, v2, b1>> ELSE <<v2, b1 + 1, b1>>]
        path == IF Len(track_points) >= 2
                THEN [t \in 1..(KeptOf(Len(track_points)) - 1) |->
                         <<b + 12 + 2 * (t - 1), b + 12 + 2 * (t - 1) + 1, b>>]
                ELSE <<>>
    IN  SinglePassFaces(0, 0) \o base \o walls \o path

\* the facets a call that runs alone returns
AloneFacets ==
    [k \in 1..Len(AloneFaces) |->
        <<AloneVertices[AloneFaces[k][1] + 1],
          AloneVertices[AloneFaces[k][2] + 1],
          AloneVertices[AloneFaces[k][3] + 1]>>]

\* the call that is running ends as it ends alone
ReturnsAloneResult ==
    /\ pc = "done" =>
          /\ err = ""
          /\ ctx = AloneCtx
          /\ vertices = AloneVertices
          /\ faces = AloneFaces
          /\ stl_data = AloneFacets
    /\ pc = "failed" =>
          /\ track_points = <<>>
          /\ err = ErrTrackRequired
          /\ vertices = <<>>
          /\ faces = <<>>
          /\ stl_data = None
    /\ track_points = <<>> => pc \in {"validate", "failed"}

C28_WitnessBothReturned ==
    /\ running = 2
    /\ pc = "done"
    /\ other[8] = "done"
    /\ other[20] # stl_data

=============================================================================
